---- MODULE Spec2Model ----
(***************************************************************************)
(* Model of the diagram-to-UCI core of version2.py: the Flow Graph built   *)
(* by build_graph, the Branch-Depth Analyzer compute_branch_length, the    *)
(* Narrative Composer narrative_summary, the Network Block Composer        *)
(* generate_corrected_network_block and the Operation Sequence Deriver     *)
(* generate_operation_sequence_block.                                      *)
(*                                                                         *)
(* Vertex ids are the integers 1..NumShapes in dictionary (insertion)      *)
(* order.  A label is the sequence of its whitespace-separated words, so   *)
(* that str.split() on a formatted statement line is the concatenation of  *)
(* the words of its parts; <<>> is the empty label.                        *)
(***************************************************************************)
EXTENDS Integers, Sequences, FiniteSets, TLC

\* ------------------------------------------------------------------------
\* Bounds of the model
\* ------------------------------------------------------------------------
NumShapes == 4
MaxEdges == 3
MaxGroundwater == 1
RecursionLimit == 14
MaxUnlabeled == 1
MaxCells == 2
MaxEdgeCells == 2
MaxImports == 2

Ids == 1..NumShapes

VARIABLES
    shapes_by_id,     \* the Flow Graph: id -> [label, hydro_type, incoming, outgoing]
    pc,               \* position of the running function
    memo_lengths,     \* narrative_summary: memo of compute_branch_length
    visited_lines,    \* narrative_summary: set of <<source, target, flow_type>>
    visited_targets,  \* narrative_summary: set of ids
    lines,            \* narrative_summary: the output lines
    stack,            \* call stack of process_target, innermost frame last
    cursor,           \* index of the driver loop of narrative_summary
    outcome,          \* "running", "returned" or "RecursionError"
    drainage_area_mapping,  \* the Area Mapping: key -> area
    rchres_groups,    \* generate_corrected_network_block: ordered dict label -> lines
    network_block,    \* what generate_corrected_network_block returned
    operation_sequence,  \* what generate_operation_sequence_block returned
    shape_cells,      \* the vertex cells of the diagram file, in document order
    edge_cells,       \* the edge cells of the diagram file, in document order
    parsed_edges,     \* import_drawio_file: edges, what parse_edges returned
    previous_graph,   \* the Flow Graph of the import before the current one
    imports,          \* number of completed imports
    depth_result,     \* the last call of compute_branch_length: [start_id, val]
    loaded_excel_file,  \* the application's name of the loaded area sheet
    app_trace,        \* what the last handler of the application did
    run_log           \* the calls of narrative_summary so far and to come

narrative_vars == <<memo_lengths, visited_lines, visited_targets, lines, stack,
                    cursor, outcome>>
network_vars == <<drainage_area_mapping, rchres_groups, network_block,
                  operation_sequence>>
import_vars == <<shape_cells, edge_cells, parsed_edges, previous_graph, imports>>
depth_vars == <<depth_result>>
app_vars == <<loaded_excel_file, app_trace, run_log>>
vars == <<shapes_by_id, pc, narrative_vars, network_vars, import_vars, depth_vars,
          app_vars>>

Least(S) == CHOOSE x \in S : \A y \in S : x <= y
Greatest(S) == CHOOSE x \in S : \A y \in S : y <= x
Occurrences(seq, x) == Cardinality({i \in DOMAIN seq : seq[i] = x})

\* The variables of import_drawio_file and of the depth calls while another
\* function is run on a graph that is already built.
NotImporting ==
    /\ shape_cells = <<>>
    /\ edge_cells = <<>>
    /\ parsed_edges = <<>>
    /\ previous_graph = [none |-> TRUE, graph |-> <<>>]
    /\ imports = 0
no_depth_result == [start_id |-> 0, val |-> 0]

\* The variables of the application's handlers and of repeated narrative calls
\* while a single function is run.
no_stored_state ==
    [shapes_by_id |-> <<>>, drainage_area_mapping |-> <<>>, loaded_excel_file |-> "",
     network_block |-> [none |-> TRUE, lines |-> <<>>]]
no_trace ==
    [op |-> "none", warned |-> FALSE, composed |-> FALSE, derived |-> FALSE,
     block_graph |-> <<>>, before |-> no_stored_state]
no_runs == [texts |-> <<>>, pending |-> <<>>]
AppAtRest ==
    /\ loaded_excel_file = ""
    /\ app_trace = no_trace
    /\ run_log = no_runs

\* ------------------------------------------------------------------------
\* Flow Graph construction
\* ------------------------------------------------------------------------
\* The vertex record parse_shapes stores for one shape.
NewShape(label, hydro_type) ==
    [label |-> label, hydro_type |-> hydro_type, incoming |-> <<>>, outgoing |-> <<>>]

\* build_graph: edges is a sequence of <<src, tgt, style>>, style the set of
\* style markers of the connector.
RECURSIVE build_graph(_, _)
RECURSIVE build_graph_source_only(_, _)
\* build_graph checking the source of an edge only.
build_graph_source_only(shapes, edges) ==
    IF edges = <<>> THEN shapes
    ELSE LET src == Head(edges)[1]
             tgt == Head(edges)[2]
             style == Head(edges)[3]
             flow_type == IF "dashed=1" \in style THEN "Groundwater" ELSE "Surface"
             s1 == [shapes EXCEPT ![src].outgoing =
                        Append(@, [target |-> tgt, flow_type |-> flow_type])]
             s2 == IF tgt \in DOMAIN shapes
                   THEN [s1 EXCEPT ![tgt].incoming =
                            Append(@, [source |-> src, flow_type |-> flow_type])]
                   ELSE s1
         IN IF src \in DOMAIN shapes
            THEN build_graph_source_only(s2, Tail(edges))
            ELSE build_graph_source_only(shapes, Tail(edges))

RECURSIVE build_graph_prepend(_, _)
\* build_graph putting a new incoming entry before the earlier ones.
build_graph_prepend(shapes, edges) ==
    IF edges = <<>> THEN shapes
    ELSE LET src == Head(edges)[1]
             tgt == Head(edges)[2]
             style == Head(edges)[3]
             flow_type == IF "dashed=1" \in style THEN "Groundwater" ELSE "Surface"
             s1 == [shapes EXCEPT ![src].outgoing =
                        Append(@, [target |-> tgt, flow_type |-> flow_type])]
             s2 == [s1 EXCEPT ![tgt].incoming =
                        <<[source |-> src, flow_type |-> flow_type]>> \o @]
         IN IF src \in DOMAIN shapes /\ tgt \in DOMAIN shapes
            THEN build_graph_prepend(s2, Tail(edges))
            ELSE build_graph_prepend(shapes, Tail(edges))

build_graph(shapes, edges) ==
    IF edges = <<>> THEN shapes
    ELSE LET src == Head(edges)[1]
             tgt == Head(edges)[2]
             style == Head(edges)[3]
             flow_type == IF "dashed=1" \in style THEN "Groundwater" ELSE "Surface"
             s1 == [shapes EXCEPT ![src].outgoing =
                        Append(@, [target |-> tgt, flow_type |-> flow_type])]
             s2 == [s1 EXCEPT ![tgt].incoming =
                        Append(@, [source |-> src, flow_type |-> flow_type])]
         IN IF src \in DOMAIN shapes /\ tgt \in DOMAIN shapes
            THEN build_graph(s2, Tail(edges))
            ELSE build_graph(shapes, Tail(edges))

\* str.lower() on a style: a style is the set of the markers it contains.
lower_marker(m) ==
    IF m = "ELLIPSE;" THEN "ellipse;"
    ELSE IF m = "DASHED=1" THEN "dashed=1"
    ELSE m
lower(style) == {lower_marker(m) : m \in style}

\* The classification with the hexagon rule before the ellipse rule.
classify_style_hexagon_first(style) ==
    IF "shape=hexagon" \in style THEN "RCHRES"
    ELSE IF "ellipse;" \in style THEN "Subcatchment"
    ELSE IF "shape=waypoint" \in style /\ "perimeter=centerperimeter" \in style
         THEN "Node"
    ELSE IF "triangle;" \in style THEN "SWM Facility"
    ELSE "Comment/Note"

\* parse_shapes, lines 379-393: the kind of a shape by the first rule its
\* lower-cased style matches.
classify_style(style) ==
    IF "ellipse;" \in style THEN "Subcatchment"
    ELSE IF "shape=hexagon" \in style THEN "RCHRES"
    ELSE IF "shape=waypoint" \in style /\ "perimeter=centerperimeter" \in style
         THEN "Node"
    ELSE IF "triangle;" \in style THEN "SWM Facility"
    ELSE "Comment/Note"

\* parse_shapes: cells is the sequence of vertex cells [id, style, value] in
\* document order, id 0 standing for an id that is empty once stripped; a
\* later cell with the id of an earlier one replaces its record.
RECURSIVE parse_shapes(_)
parse_shapes(cells) ==
    IF cells = <<>> THEN <<>>
    ELSE LET cell == cells[Len(cells)]
             before == parse_shapes(SubSeq(cells, 1, Len(cells) - 1))
         IN IF cell.id = 0 THEN before
            ELSE (cell.id :> NewShape(cell.value, classify_style(lower(cell.style))))
                 @@ before

\* parse_edges: cells is the sequence of edge cells [source, target, style];
\* an edge with an empty end is not returned.
RECURSIVE parse_edges(_)
parse_edges(cells) ==
    IF cells = <<>> THEN <<>>
    ELSE LET cell == Head(cells)
         IN (IF cell.source # 0 /\ cell.target # 0
             THEN <<<<cell.source, cell.target, lower(cell.style)>>>>
             ELSE <<>>) \o parse_edges(Tail(cells))

\* ------------------------------------------------------------------------
\* Branch-Depth Analyzer
\* ------------------------------------------------------------------------
\* compute_branch_length with the memo threaded through: the result is
\* [memo, val, err]; err is the RecursionError the interpreter raises when the
\* call depth passes RecursionLimit (the code has no cycle check of its own).
RECURSIVE compute_branch_length(_, _, _, _)
RECURSIVE compute_branch_length_loop(_, _, _, _, _, _)
RECURSIVE compute_branch_length_loop_last(_, _, _, _, _, _)
\* The loop keeping the depth of the last target instead of the maximum.
compute_branch_length_loop_last(shapes, outgoings, i, memo, max_depth, depth) ==
    IF i > Len(outgoings) THEN [memo |-> memo, val |-> max_depth, err |-> FALSE]
    ELSE LET r == compute_branch_length(shapes, outgoings[i].target, memo, depth + 1)
         IN IF r.err THEN r
            ELSE compute_branch_length_loop_last(shapes, outgoings, i + 1, r.memo,
                                                 r.val, depth)

compute_branch_length_loop(shapes, outgoings, i, memo, max_depth, depth) ==
    IF i > Len(outgoings) THEN [memo |-> memo, val |-> max_depth, err |-> FALSE]
    ELSE LET r == compute_branch_length(shapes, outgoings[i].target, memo, depth + 1)
         IN IF r.err THEN r
            ELSE compute_branch_length_loop(shapes, outgoings, i + 1, r.memo,
                     IF r.val > max_depth THEN r.val ELSE max_depth, depth)

compute_branch_length(shapes, start_id, memo, depth) ==
    IF depth > RecursionLimit THEN [memo |-> memo, val |-> 0, err |-> TRUE]
    ELSE IF start_id \in DOMAIN memo
    THEN [memo |-> memo, val |-> memo[start_id], err |-> FALSE]
    ELSE LET outgoings == shapes[start_id].outgoing
         IN IF outgoings = <<>>
            THEN [memo |-> (start_id :> 1) @@ memo, val |-> 1, err |-> FALSE]
            ELSE LET r == compute_branch_length_loop(shapes, outgoings, 1, memo, 0, depth)
                 IN IF r.err THEN r
                    ELSE [memo |-> (start_id :> (1 + r.val)) @@ r.memo,
                          val |-> 1 + r.val, err |-> FALSE]

\* narrative_summary, lines 465-467: the memo filled for every vertex in
\* dictionary order.
RECURSIVE memo_all(_, _, _)
memo_all(shapes, sid, memo) ==
    IF sid \notin DOMAIN shapes THEN [memo |-> memo, val |-> 0, err |-> FALSE]
    ELSE LET r == compute_branch_length(shapes, sid, memo, 1)
         IN IF r.err THEN r ELSE memo_all(shapes, sid + 1, r.memo)

\* ------------------------------------------------------------------------
\* Narrative Composer
\* ------------------------------------------------------------------------
\* label or id: the display label of a vertex.
label_or_id(shapes, id) ==
    IF shapes[id].label # <<>> THEN shapes[id].label ELSE <<ToString(id)>>

\* An output line.  text is what the code formats; source, target and
\* flow_type record which edge a discharge sentence is about (0 and "" for the
\* other lines).
discharge_line(shapes, source_id, target_id, flow_type) ==
    [kind |-> "discharges", source |-> source_id, target |-> target_id,
     flow_type |-> flow_type,
     text |-> <<shapes[source_id].hydro_type, label_or_id(shapes, source_id),
                IF flow_type = "Surface" THEN "(Surface)" ELSE "(Groundwater)",
                shapes[target_id].hydro_type, label_or_id(shapes, target_id)>>]

no_discharge_line(shapes, tid) ==
    [kind |-> "does not discharge", source |-> tid, target |-> 0, flow_type |-> "",
     text |-> <<shapes[tid].hydro_type, shapes[tid].label>>]

orphan_header ==
    [kind |-> "orphan header", source |-> 0, target |-> 0, flow_type |-> "",
     text |-> <<"The following shapes are not connected to any flow path:">>]

orphan_line(shapes, o_id) ==
    [kind |-> "orphan", source |-> o_id, target |-> 0, flow_type |-> "",
     text |-> <<shapes[o_id].hydro_type, label_or_id(shapes, o_id)>>]

blank_line ==
    [kind |-> "blank", source |-> 0, target |-> 0, flow_type |-> "", text |-> <<>>]

\* add_line: the new [visited_lines, lines].
add_line_unguarded(shapes, vl, ls, source_id, target_id, flow_type) ==
    [visited_lines |-> vl \cup {<<source_id, target_id, flow_type>>},
     lines |-> Append(ls, discharge_line(shapes, source_id, target_id, flow_type))]

add_line(shapes, vl, ls, source_id, target_id, flow_type) ==
    IF <<source_id, target_id, flow_type>> \in vl
    THEN [visited_lines |-> vl, lines |-> ls]
    ELSE [visited_lines |-> vl \cup {<<source_id, target_id, flow_type>>},
          lines |-> Append(ls, discharge_line(shapes, source_id, target_id, flow_type))]

\* sorted(outgoings, key=memo_lengths[target], reverse=True): stable, so
\* entries of equal depth keep their order.
RECURSIVE insert_by_depth(_, _, _)
RECURSIVE insert_by_depth_unstable(_, _, _)
\* The insertion that puts an entry before the entries of equal depth.
insert_by_depth_unstable(sorted, od, memo) ==
    IF sorted = <<>> THEN <<od>>
    ELSE IF memo[od.target] >= memo[Head(sorted).target]
         THEN <<od>> \o sorted
         ELSE <<Head(sorted)>> \o insert_by_depth_unstable(Tail(sorted), od, memo)

insert_by_depth(sorted, od, memo) ==
    IF sorted = <<>> THEN <<od>>
    ELSE IF memo[od.target] > memo[Head(sorted).target]
         THEN <<od>> \o sorted
         ELSE <<Head(sorted)>> \o insert_by_depth(Tail(sorted), od, memo)

RECURSIVE out_sorted(_, _)
out_sorted(outgoings, memo) ==
    IF outgoings = <<>> THEN <<>>
    ELSE insert_by_depth(out_sorted(SubSeq(outgoings, 1, Len(outgoings) - 1), memo),
                         outgoings[Len(outgoings)], memo)

\* start_shapes, lines 513-516, in dictionary order.
RECURSIVE start_shapes(_, _)
RECURSIVE start_shapes_any_kind(_, _)
\* The start shapes chosen without regard to the kind.
start_shapes_any_kind(shapes, sid) ==
    IF sid \notin DOMAIN shapes THEN <<>>
    ELSE (IF shapes[sid].incoming = <<>> THEN <<sid>> ELSE <<>>)
         \o start_shapes_any_kind(shapes, sid + 1)

start_shapes(shapes, sid) ==
    IF sid \notin DOMAIN shapes THEN <<>>
    ELSE (IF shapes[sid].hydro_type # "Comment/Note" /\ shapes[sid].incoming = <<>>
          THEN <<sid>> ELSE <<>>) \o start_shapes(shapes, sid + 1)

\* orphans, lines 525-528, in dictionary order.
RECURSIVE orphans(_, _)
RECURSIVE orphans_any_kind(_, _)
\* The orphans collected without regard to the kind.
orphans_any_kind(shapes, sid) ==
    IF sid \notin DOMAIN shapes THEN <<>>
    ELSE (IF shapes[sid].incoming = <<>> /\ shapes[sid].outgoing = <<>>
          THEN <<sid>> ELSE <<>>) \o orphans_any_kind(shapes, sid + 1)

orphans(shapes, sid) ==
    IF sid \notin DOMAIN shapes THEN <<>>
    ELSE (IF shapes[sid].incoming = <<>> /\ shapes[sid].outgoing = <<>>
             /\ shapes[sid].hydro_type # "Comment/Note"
          THEN <<sid>> ELSE <<>>) \o orphans(shapes, sid + 1)

\* One activation of process_target: at is "incoming" (the loop of line 488 at
\* index i), "inc_ret" (process_target(inc_id) of line 492 has returned, the
\* add_line of line 493 is next), "outgoing" (the loop of line 504 at index i
\* of out_sorted) or "finish" (line 510).
Frame(tid) == [tid |-> tid, at |-> "incoming", i |-> 1]
Top == stack[Len(stack)]
SetTop(f) == [stack EXCEPT ![Len(stack)] = f]

\* process_target(tid) called with the stack stk: the interpreter raises
\* RecursionError at its depth limit; a visited target returns at once (line
\* 486); otherwise a new activation starts.
Overflows(stk) == Len(stk) >= RecursionLimit
Invoke(stk, tid) ==
    IF tid \in visited_targets THEN stk ELSE Append(stk, Frame(tid))

Raise ==
    /\ pc' = "raised"
    /\ outcome' = "RecursionError"
    /\ stack' = <<>>

\* narrative_summary, lines 465-467.
ComputeDepths ==
    /\ pc = "depths"
    /\ LET r == memo_all(shapes_by_id, 1, <<>>)
       IN IF r.err
          THEN /\ Raise
               /\ UNCHANGED <<memo_lengths, cursor>>
          ELSE /\ memo_lengths' = r.memo
               /\ pc' = "roots"
               /\ cursor' = 1
               /\ UNCHANGED <<stack, outcome>>
    /\ UNCHANGED <<app_vars, import_vars, depth_vars, network_vars, shapes_by_id, visited_lines, visited_targets, lines>>

\* lines 517-518: process_target(s_id) for the next start shape.
StartRoot ==
    /\ pc = "roots" /\ stack = <<>>
    /\ LET roots == start_shapes(shapes_by_id, 1)
       IN IF cursor > Len(roots)
          THEN /\ pc' = "sweep"
               /\ cursor' = 1
               /\ UNCHANGED <<stack, outcome>>
          ELSE /\ stack' = Invoke(stack, roots[cursor])
               /\ cursor' = cursor + 1
               /\ UNCHANGED <<pc, outcome>>
    /\ UNCHANGED <<app_vars, import_vars, depth_vars, network_vars, shapes_by_id, memo_lengths, visited_lines, visited_targets, lines>>

\* The driver without the sweep of lines 520-522.
Sweep_skipped ==
    /\ pc = "sweep" /\ stack = <<>>
    /\ pc' = "orphans"
    /\ UNCHANGED <<app_vars, import_vars, depth_vars, network_vars, shapes_by_id,
                   memo_lengths, visited_lines, visited_targets, lines, stack, cursor,
                   outcome>>

\* lines 520-522: process_target(sid) for every vertex not yet visited.
Sweep ==
    /\ pc = "sweep" /\ stack = <<>>
    /\ IF cursor \notin DOMAIN shapes_by_id
       THEN /\ pc' = "orphans"
            /\ UNCHANGED <<stack, cursor>>
       ELSE /\ stack' = Invoke(stack, cursor)
            /\ cursor' = cursor + 1
            /\ UNCHANGED pc
    /\ UNCHANGED <<app_vars, import_vars, depth_vars, network_vars, shapes_by_id, memo_lengths, visited_lines, visited_targets,
                   lines, outcome>>

\* The incoming loop without the recursion into the feeder and its add_line.
ProcessIncoming_no_feeders ==
    /\ pc \in {"roots", "sweep"} /\ stack # <<>>
    /\ Top.at = "incoming"
    /\ Top.i <= Len(shapes_by_id[Top.tid].incoming)
    /\ stack' = SetTop([Top EXCEPT !.i = @ + 1])
    /\ UNCHANGED <<app_vars, import_vars, depth_vars, network_vars, shapes_by_id, pc, memo_lengths, visited_lines, visited_targets,
                   lines, cursor, outcome>>

\* process_target, lines 488-492: one iteration of the incoming loop.
ProcessIncoming ==
    /\ pc \in {"roots", "sweep"} /\ stack # <<>>
    /\ Top.at = "incoming"
    /\ Top.i <= Len(shapes_by_id[Top.tid].incoming)
    /\ LET inc == shapes_by_id[Top.tid].incoming[Top.i]
       IN IF <<inc.source, Top.tid, inc.flow_type>> \notin visited_lines
          THEN IF Overflows(stack)
               THEN Raise
               ELSE /\ stack' = Invoke(SetTop([Top EXCEPT !.at = "inc_ret"]), inc.source)
                    /\ UNCHANGED <<pc, outcome>>
          ELSE /\ stack' = SetTop([Top EXCEPT !.i = @ + 1])
               /\ UNCHANGED <<pc, outcome>>
    /\ UNCHANGED <<app_vars, import_vars, depth_vars, network_vars, shapes_by_id, memo_lengths, visited_lines, visited_targets,
                   lines, cursor>>

\* process_target, line 493: add_line after the feeder has been processed.
AddIncomingLine ==
    /\ pc \in {"roots", "sweep"} /\ stack # <<>>
    /\ Top.at = "inc_ret"
    /\ LET inc == shapes_by_id[Top.tid].incoming[Top.i]
           r == add_line(shapes_by_id, visited_lines, lines,
                         inc.source, Top.tid, inc.flow_type)
       IN /\ visited_lines' = r.visited_lines
          /\ lines' = r.lines
    /\ stack' = SetTop([Top EXCEPT !.at = "incoming", !.i = @ + 1])
    /\ UNCHANGED <<app_vars, import_vars, depth_vars, network_vars, shapes_by_id, pc, memo_lengths, visited_targets, cursor, outcome>>

\* The same with outgoings.sort(...) in place of sorted(outgoings, ...).
BeginOutgoing_sort_in_place ==
    /\ pc \in {"roots", "sweep"} /\ stack # <<>>
    /\ Top.at = "incoming"
    /\ Top.i > Len(shapes_by_id[Top.tid].incoming)
    /\ IF shapes_by_id[Top.tid].outgoing = <<>>
       THEN /\ lines' = IF shapes_by_id[Top.tid].hydro_type # "Comment/Note"
                        THEN Append(lines, no_discharge_line(shapes_by_id, Top.tid))
                        ELSE lines
            /\ stack' = SetTop([Top EXCEPT !.at = "finish"])
            /\ UNCHANGED shapes_by_id
       ELSE /\ stack' = SetTop([Top EXCEPT !.at = "outgoing", !.i = 1])
            /\ shapes_by_id' = [shapes_by_id EXCEPT ![Top.tid].outgoing =
                                    out_sorted(@, memo_lengths)]
            /\ UNCHANGED lines
    /\ UNCHANGED <<app_vars, import_vars, depth_vars, network_vars, pc, memo_lengths,
                   visited_lines, visited_targets, cursor, outcome>>

\* process_target, lines 495-503: after the incoming loop, the 'does not
\* discharge' line of a vertex without outgoing edges, or the start of the
\* loop over out_sorted.
BeginOutgoing ==
    /\ pc \in {"roots", "sweep"} /\ stack # <<>>
    /\ Top.at = "incoming"
    /\ Top.i > Len(shapes_by_id[Top.tid].incoming)
    /\ IF shapes_by_id[Top.tid].outgoing = <<>>
       THEN /\ lines' = IF shapes_by_id[Top.tid].hydro_type # "Comment/Note"
                        THEN Append(lines, no_discharge_line(shapes_by_id, Top.tid))
                        ELSE lines
            /\ stack' = SetTop([Top EXCEPT !.at = "finish"])
       ELSE /\ stack' = SetTop([Top EXCEPT !.at = "outgoing", !.i = 1])
            /\ UNCHANGED lines
    /\ UNCHANGED <<app_vars, import_vars, depth_vars, network_vars, shapes_by_id, pc, memo_lengths, visited_lines, visited_targets,
                   cursor, outcome>>

\* process_target, lines 504-508: add_line, then process_target(nxt_id).
ProcessOutgoing ==
    /\ pc \in {"roots", "sweep"} /\ stack # <<>>
    /\ Top.at = "outgoing"
    /\ LET outs == out_sorted(shapes_by_id[Top.tid].outgoing, memo_lengths)
       IN IF Top.i > Len(outs)
          THEN /\ stack' = SetTop([Top EXCEPT !.at = "finish"])
               /\ UNCHANGED <<visited_lines, lines, pc, outcome>>
          ELSE LET outd == outs[Top.i]
                   r == add_line(shapes_by_id, visited_lines, lines,
                                 Top.tid, outd.target, outd.flow_type)
               IN /\ visited_lines' = r.visited_lines
                  /\ lines' = r.lines
                  /\ IF Overflows(stack)
                     THEN Raise
                     ELSE /\ stack' = Invoke(SetTop([Top EXCEPT !.i = @ + 1]), outd.target)
                          /\ UNCHANGED <<pc, outcome>>
    /\ UNCHANGED <<app_vars, import_vars, depth_vars, network_vars, shapes_by_id, memo_lengths, visited_targets, cursor>>

\* process_target, line 510, and the return to the caller.
FinishTarget ==
    /\ pc \in {"roots", "sweep"} /\ stack # <<>>
    /\ Top.at = "finish"
    /\ visited_targets' = visited_targets \cup {Top.tid}
    /\ stack' = SubSeq(stack, 1, Len(stack) - 1)
    /\ UNCHANGED <<app_vars, import_vars, depth_vars, network_vars, shapes_by_id, pc, memo_lengths, visited_lines, lines, cursor, outcome>>

\* lines 524-536: the orphan block and the return.
RECURSIVE orphan_lines(_, _)
orphan_lines(shapes, os) ==
    IF os = <<>> THEN <<>>
    ELSE <<orphan_line(shapes, Head(os))>> \o orphan_lines(shapes, Tail(os))

HighlightOrphans ==
    /\ pc = "orphans"
    /\ LET os == orphans(shapes_by_id, 1)
       IN lines' = IF os # <<>>
                   THEN lines \o <<orphan_header>> \o orphan_lines(shapes_by_id, os)
                              \o <<blank_line>>
                   ELSE lines
    /\ pc' = "done"
    /\ outcome' = "returned"
    /\ UNCHANGED <<app_vars, import_vars, depth_vars, network_vars, shapes_by_id, memo_lengths, visited_lines, visited_targets,
                   stack, cursor>>

\* ------------------------------------------------------------------------
\* The import of a diagram file, repeated on the same file
\* ------------------------------------------------------------------------
\* import_drawio_file, lines 943-949, on the same file without a fresh
\* parse_shapes after the first import.
ImportDrawio_same_dict ==
    /\ pc = "import"
    /\ imports < MaxImports
    /\ LET shapes == IF imports = 0 THEN parse_shapes(shape_cells) ELSE shapes_by_id
           es == parse_edges(edge_cells)
       IN /\ parsed_edges' = es
          /\ shapes_by_id' = build_graph(shapes, es)
    /\ previous_graph' = IF imports = 0 THEN previous_graph
                         ELSE [none |-> FALSE, graph |-> shapes_by_id]
    /\ imports' = imports + 1
    /\ UNCHANGED <<app_vars, shape_cells, edge_cells, pc, narrative_vars, network_vars, depth_vars>>

\* import_drawio_file, lines 943-949: parse_shapes, parse_edges and
\* build_graph on the cells of the chosen file; previous_graph keeps the graph
\* the import replaces.
ImportDrawio ==
    /\ pc = "import"
    /\ imports < MaxImports
    /\ LET shapes == parse_shapes(shape_cells)
           es == parse_edges(edge_cells)
       IN /\ parsed_edges' = es
          /\ shapes_by_id' = build_graph(shapes, es)
    /\ previous_graph' = IF imports = 0 THEN previous_graph
                         ELSE [none |-> FALSE, graph |-> shapes_by_id]
    /\ imports' = imports + 1
    /\ UNCHANGED <<app_vars, shape_cells, edge_cells, pc, narrative_vars, network_vars, depth_vars>>

\* The cells of a diagram file: at most MaxCells vertex cells with the ids 1
\* and 2 or an empty id, and at most MaxEdgeCells edge cells between these ids.
CellIds == 0..2
ShapeStyles ==
    { {}, {"ellipse;"}, {"ELLIPSE;"}, {"shape=hexagon"}, {"ellipse;", "shape=hexagon"},
      {"shape=waypoint", "perimeter=centerperimeter"}, {"shape=waypoint"},
      {"triangle;"} }
CellValues == { <<>>, <<"7">> }
ShapeCells == [id : CellIds, style : ShapeStyles, value : CellValues]
EdgeCells == [source : CellIds, target : CellIds, style : {{}, {"dashed=1"}}]

InitGraph ==
    /\ shape_cells \in UNION {[1..n -> ShapeCells] : n \in 0..MaxCells}
    /\ edge_cells \in UNION {[1..n -> EdgeCells] : n \in 0..MaxEdgeCells}
    /\ shapes_by_id = <<>>
    /\ parsed_edges = <<>>
    /\ previous_graph = [none |-> TRUE, graph |-> <<>>]
    /\ imports = 0
    /\ pc = "import"
    /\ memo_lengths = <<>>
    /\ visited_lines = {}
    /\ visited_targets = {}
    /\ lines = <<>>
    /\ stack = <<>>
    /\ cursor = 1
    /\ outcome = "running"
    /\ drainage_area_mapping = <<>>
    /\ rchres_groups = <<>>
    /\ network_block = [none |-> TRUE, lines |-> <<>>]
    /\ operation_sequence = <<>>
    /\ depth_result = no_depth_result
    /\ AppAtRest

NextGraph == ImportDrawio

SpecGraph == InitGraph /\ [][NextGraph]_vars

\* ------------------------------------------------------------------------
\* Properties of the Flow Graph construction
\* ------------------------------------------------------------------------
Imported == imports >= 1
\* The parsed edges that leave, or enter, the vertex v and have both ends
\* among the vertices.
KeptEdgesFrom(v) ==
    {k \in DOMAIN parsed_edges :
        parsed_edges[k][1] = v /\ parsed_edges[k][2] \in DOMAIN shapes_by_id}
KeptEdgesInto(v) ==
    {k \in DOMAIN parsed_edges :
        parsed_edges[k][2] = v /\ parsed_edges[k][1] \in DOMAIN shapes_by_id}

\* C15: after build_graph every id stored in an incoming or outgoing list is
\* the id of a vertex, and each vertex has one outgoing (incoming) entry for
\* each edge from (into) it whose both ends are vertices and none for any
\* other edge; the vertices are those parse_shapes returned.
C15_OnlyEdgesBetweenVertices ==
    Imported =>
        /\ DOMAIN shapes_by_id = DOMAIN parse_shapes(shape_cells)
        /\ \A v \in DOMAIN shapes_by_id :
              /\ \A k \in DOMAIN shapes_by_id[v].outgoing :
                    shapes_by_id[v].outgoing[k].target \in DOMAIN shapes_by_id
              /\ \A k \in DOMAIN shapes_by_id[v].incoming :
                    shapes_by_id[v].incoming[k].source \in DOMAIN shapes_by_id
              /\ Len(shapes_by_id[v].outgoing) = Cardinality(KeptEdgesFrom(v))
              /\ Len(shapes_by_id[v].incoming) = Cardinality(KeptEdgesInto(v))

\* C15 witness: an imported graph whose file holds an edge from a vertex to an
\* id that is no vertex, an edge from an id that is no vertex to a vertex.
C15_Witness ==
    /\ Imported
    /\ \E j, k \in DOMAIN parsed_edges :
          /\ parsed_edges[j][1] \in DOMAIN shapes_by_id
          /\ parsed_edges[j][2] \notin DOMAIN shapes_by_id
          /\ parsed_edges[k][1] \notin DOMAIN shapes_by_id
          /\ parsed_edges[k][2] \in DOMAIN shapes_by_id

\* The classification rules in their order.
Rules ==
    << [markers |-> {"ellipse;"}, kind |-> "Subcatchment"],
       [markers |-> {"shape=hexagon"}, kind |-> "RCHRES"],
       [markers |-> {"shape=waypoint", "perimeter=centerperimeter"}, kind |-> "Node"],
       [markers |-> {"triangle;"}, kind |-> "SWM Facility"] >>
FirstMatch(style) ==
    LET matching == {r \in DOMAIN Rules : Rules[r].markers \subseteq style}
    IN IF matching = {} THEN "Comment/Note" ELSE Rules[Least(matching)].kind
\* The cell a vertex record is made from: the last one with its id.
CellOf(v) == Greatest({k \in DOMAIN shape_cells : shape_cells[k].id = v})

\* C24: the vertices of an imported graph are the non-empty ids of the vertex
\* cells, none has an empty id, and the kind of each is the kind of the first
\* rule, in the order ellipse, hexagon, waypoint with center-perimeter,
\* triangle, that its lower-cased style matches, Comment when none matches.
C24_FirstMatchingRule ==
    Imported =>
        /\ 0 \notin DOMAIN shapes_by_id
        /\ DOMAIN shapes_by_id = {shape_cells[k].id : k \in DOMAIN shape_cells} \ {0}
        /\ \A v \in DOMAIN shapes_by_id :
              shapes_by_id[v].hydro_type = FirstMatch(lower(shape_cells[CellOf(v)].style))

\* C24 witness: an imported file with a cell of empty id and a cell whose
\* style holds the ellipse and the hexagon marker, classified Subcatchment.
C24_Witness ==
    /\ Imported
    /\ \E k \in DOMAIN shape_cells : shape_cells[k].id = 0
    /\ \E v \in DOMAIN shapes_by_id :
          /\ shape_cells[CellOf(v)].style = {"ellipse;", "shape=hexagon"}
          /\ shapes_by_id[v].hydro_type = "Subcatchment"

\* The outgoing (incoming) entries of u for the edges es, in their order.
RECURSIVE OutgoingInOrder(_, _)
OutgoingInOrder(u, es) ==
    IF es = <<>> THEN <<>>
    ELSE (IF Head(es)[1] = u /\ Head(es)[2] \in DOMAIN shapes_by_id
          THEN <<[target |-> Head(es)[2],
                  flow_type |-> IF "dashed=1" \in Head(es)[3]
                                THEN "Groundwater" ELSE "Surface"]>>
          ELSE <<>>) \o OutgoingInOrder(u, Tail(es))
RECURSIVE IncomingInOrder(_, _)
IncomingInOrder(u, es) ==
    IF es = <<>> THEN <<>>
    ELSE (IF Head(es)[2] = u /\ Head(es)[1] \in DOMAIN shapes_by_id
          THEN <<[source |-> Head(es)[1],
                  flow_type |-> IF "dashed=1" \in Head(es)[3]
                                THEN "Groundwater" ELSE "Surface"]>>
          ELSE <<>>) \o IncomingInOrder(u, Tail(es))

\* C28: after the import, for all vertices u, v and flow kinds k, u.outgoing
\* holds the entry (v, k) as often as v.incoming holds the entry (u, k), and
\* the entries of each list stand in the order of their edges.
C28_ListsMirror ==
    Imported =>
        /\ \A u, v \in DOMAIN shapes_by_id :
              \A k \in {"Surface", "Groundwater"} :
                  Occurrences(shapes_by_id[u].outgoing, [target |-> v, flow_type |-> k])
                      = Occurrences(shapes_by_id[v].incoming, [source |-> u, flow_type |-> k])
        /\ \A u \in DOMAIN shapes_by_id :
              /\ shapes_by_id[u].outgoing = OutgoingInOrder(u, parsed_edges)
              /\ shapes_by_id[u].incoming = IncomingInOrder(u, parsed_edges)

\* C28 witness: an imported graph with a vertex that has two different
\* incoming entries.
C28_Witness ==
    /\ Imported
    /\ \E v \in DOMAIN shapes_by_id :
          /\ Len(shapes_by_id[v].incoming) = 2
          /\ shapes_by_id[v].incoming[1] # shapes_by_id[v].incoming[2]

Surface == {}
Dashed == {"dashed=1"}

\* The connector records parse_edges returns: at most MaxEdges connectors
\* between the shapes, at most MaxGroundwater of them dashed.
EdgeRecords == Ids \X Ids \X {Surface, Dashed}
EdgeSeqs ==
    {es \in UNION {[1..n -> EdgeRecords] : n \in 0..MaxEdges} :
        Cardinality({i \in DOMAIN es : es[i][3] = Dashed}) <= MaxGroundwater}

\* The shapes parse_shapes returns: shape i is labelled with its number and is
\* of a recognized kind, except for at most one Comment/Note and at most one
\* shape without label among the first MaxUnlabeled.
RecognizedKinds == <<"Subcatchment", "RCHRES", "Node", "SWM Facility">>
KindOf(i, comment) ==
    IF i = comment THEN "Comment/Note" ELSE RecognizedKinds[((i - 1) % 4) + 1]
NarrativeShapes(comment, unlabeled) ==
    [i \in Ids |-> NewShape(IF i = unlabeled THEN <<>> ELSE <<ToString(i)>>,
                            KindOf(i, comment))]

\* The locals of narrative_summary at its start, lines 461-465, with the
\* variables of the other functions at rest.
NarrativeStart ==
    /\ pc = "depths"
    /\ memo_lengths = <<>>
    /\ visited_lines = {}
    /\ visited_targets = {}
    /\ lines = <<>>
    /\ stack = <<>>
    /\ cursor = 1
    /\ outcome = "running"
    /\ drainage_area_mapping = <<>>
    /\ rchres_groups = <<>>
    /\ network_block = [none |-> TRUE, lines |-> <<>>]
    /\ operation_sequence = <<>>
    /\ NotImporting
    /\ depth_result = no_depth_result

InitNarrative ==
    /\ \E es \in EdgeSeqs, comment \in 0..NumShapes, unlabeled \in 0..MaxUnlabeled :
           shapes_by_id = build_graph(NarrativeShapes(comment, unlabeled), es)
    /\ NarrativeStart
    /\ AppAtRest

NextNarrative ==
    \/ ComputeDepths
    \/ StartRoot
    \/ Sweep
    \/ ProcessIncoming
    \/ AddIncomingLine
    \/ BeginOutgoing
    \/ ProcessOutgoing
    \/ FinishTarget
    \/ HighlightOrphans

SpecNarrative == InitNarrative /\ [][NextNarrative]_vars

\* ------------------------------------------------------------------------
\* The Branch-Depth Analyzer called for the vertices in any order
\* ------------------------------------------------------------------------
\* compute_branch_length(shapes_by_id, start_id, memo) with the memo of the
\* earlier calls.
CallDepth(start_id) ==
    /\ pc = "depths"
    /\ LET r == compute_branch_length(shapes_by_id, start_id, memo_lengths, 1)
       IN IF r.err
          THEN /\ Raise
               /\ UNCHANGED <<memo_lengths, depth_result>>
          ELSE /\ memo_lengths' = r.memo
               /\ depth_result' = [start_id |-> start_id, val |-> r.val]
               /\ UNCHANGED <<pc, outcome, stack>>
    /\ UNCHANGED <<app_vars, import_vars, network_vars, shapes_by_id, visited_lines, visited_targets,
                   lines, cursor>>

\* compute_branch_length(shapes_by_id, start_id): memo is None, lines 441-442,
\* so the call works on a memo of its own.
CallDepthFresh(start_id) ==
    /\ pc = "depths"
    /\ LET r == compute_branch_length(shapes_by_id, start_id, <<>>, 1)
       IN IF r.err
          THEN /\ Raise
               /\ UNCHANGED depth_result
          ELSE /\ depth_result' = [start_id |-> start_id, val |-> r.val]
               /\ UNCHANGED <<pc, outcome, stack>>
    /\ UNCHANGED <<app_vars, import_vars, network_vars, shapes_by_id, memo_lengths, visited_lines,
                   visited_targets, lines, cursor>>

InitDepth ==
    /\ \E es \in EdgeSeqs : shapes_by_id = build_graph(NarrativeShapes(0, 0), es)
    /\ NarrativeStart
    /\ AppAtRest

NextDepth ==
    \/ \E start_id \in DOMAIN shapes_by_id : CallDepth(start_id)
    \/ \E start_id \in DOMAIN shapes_by_id : CallDepthFresh(start_id)

SpecDepth == InitDepth /\ [][NextDepth]_vars

\* ------------------------------------------------------------------------
\* narrative_summary called again, on the same or on another graph
\* ------------------------------------------------------------------------
RerunShapes == 3
RerunEdges == 2

\* The graphs of the repeated calls: the shapes 1..NumShapes with at most
\* RerunEdges connectors between the first RerunShapes of them.
RerunGraphs ==
    {build_graph(NarrativeShapes(0, 0), es) :
        es \in UNION {[1..n -> (1..RerunShapes) \X (1..RerunShapes) \X {Surface}] :
                         n \in 0..RerunEdges}}

\* The next call without the fresh memo_lengths and visited_targets of lines
\* 461-465.
CallAgain_keeping_memo ==
    /\ pc \in {"done", "raised"}
    /\ run_log.pending # <<>>
    /\ run_log' = [texts |-> Append(run_log.texts,
                                    [graph |-> shapes_by_id, outcome |-> outcome,
                                     lines |-> lines]),
                   pending |-> Tail(run_log.pending)]
    /\ shapes_by_id' = Head(run_log.pending)
    /\ pc' = "depths"
    /\ visited_lines' = {}
    /\ lines' = <<>>
    /\ stack' = <<>>
    /\ cursor' = 1
    /\ outcome' = "running"
    /\ UNCHANGED <<memo_lengths, visited_targets, import_vars, depth_vars, network_vars,
                   loaded_excel_file, app_trace>>

\* narrative_summary called after an earlier call has ended: the locals of
\* lines 461-465 are new objects; run_log keeps what the earlier call returned.
CallAgain ==
    /\ pc \in {"done", "raised"}
    /\ run_log.pending # <<>>
    /\ run_log' = [texts |-> Append(run_log.texts,
                                    [graph |-> shapes_by_id, outcome |-> outcome,
                                     lines |-> lines]),
                   pending |-> Tail(run_log.pending)]
    /\ shapes_by_id' = Head(run_log.pending)
    /\ pc' = "depths"
    /\ memo_lengths' = <<>>
    /\ visited_lines' = {}
    /\ visited_targets' = {}
    /\ lines' = <<>>
    /\ stack' = <<>>
    /\ cursor' = 1
    /\ outcome' = "running"
    /\ UNCHANGED <<import_vars, depth_vars, network_vars, loaded_excel_file, app_trace>>

\* A first call on a graph, then a call on any graph, then a call on the
\* first graph again.
InitRerun ==
    /\ \E g, h \in RerunGraphs :
          /\ shapes_by_id = h
          /\ run_log = [texts |-> <<>>, pending |-> <<g, h>>]
    /\ NarrativeStart
    /\ loaded_excel_file = ""
    /\ app_trace = no_trace

NextRerun ==
    \/ NextNarrative
    \/ CallAgain
    \/ /\ depth_result = no_depth_result
       /\ \E start_id \in DOMAIN shapes_by_id : CallDepthFresh(start_id)

SpecRerun == InitRerun /\ [][NextRerun]_vars

\* ------------------------------------------------------------------------
\* Properties of the Narrative Composer
\* ------------------------------------------------------------------------
Targets(shapes, v) ==
    {shapes[v].outgoing[i].target : i \in DOMAIN shapes[v].outgoing}
Sources(shapes, v) ==
    {shapes[v].incoming[i].source : i \in DOMAIN shapes[v].incoming}

RECURSIVE Downstream(_, _, _)
Downstream(shapes, frontier, seen) ==
    LET next == UNION {Targets(shapes, v) : v \in frontier} \ seen
    IN IF next = {} THEN seen ELSE Downstream(shapes, next, seen \cup next)

\* No vertex reaches itself along outgoing edges.
Acyclic(shapes) ==
    \A v \in DOMAIN shapes : v \notin Downstream(shapes, {v}, {})

IsDischarge(l) == l.kind = "discharges"
Triple(l) == <<l.source, l.target, l.flow_type>>
NoDischargeCount(t) ==
    Cardinality({i \in DOMAIN lines :
                    lines[i].kind = "does not discharge" /\ lines[i].source = t})
Returned == outcome = "returned"

\* C1: on a Flow Graph without a directed cycle the recursion of
\* process_target stays bounded: narrative_summary never ends in the
\* interpreter's RecursionError.
C1_AcyclicTerminates ==
    Acyclic(shapes_by_id) => outcome # "RecursionError"

\* C2: in the returned narrative, every non-Comment vertex without outgoing
\* edges has its 'does not discharge' line exactly once.
C2_NoDischargeLineOnce ==
    Returned =>
        \A t \in DOMAIN shapes_by_id :
            (shapes_by_id[t].outgoing = <<>> /\ shapes_by_id[t].hydro_type # "Comment/Note")
                => NoDischargeCount(t) = 1

\* C3: at every point of the traversal no two discharge sentences are about
\* the same (source, target, flowKind) triple.
C3_NoDuplicateSentence ==
    \A i, j \in DOMAIN lines :
        (i < j /\ IsDischarge(lines[i]) /\ IsDischarge(lines[j]))
            => Triple(lines[i]) # Triple(lines[j])

\* C3 witness: a returned narrative of a graph with a duplicate connector,
\* whose triple has its one sentence.
C3_Witness ==
    /\ Returned
    /\ \E v \in DOMAIN shapes_by_id :
         \E i, j \in DOMAIN shapes_by_id[v].outgoing :
            /\ i < j
            /\ shapes_by_id[v].outgoing[i] = shapes_by_id[v].outgoing[j]
            /\ \E k \in DOMAIN lines :
                  /\ IsDischarge(lines[k])
                  /\ Triple(lines[k]) = <<v, shapes_by_id[v].outgoing[i].target,
                                          shapes_by_id[v].outgoing[i].flow_type>>

\* C4: on a Flow Graph with a directed cycle the depth computation and the
\* narrative never recurse up to the interpreter's limit: the run does not end
\* in RecursionError.
C4_CycleIsNamedError ==
    ~Acyclic(shapes_by_id) => outcome # "RecursionError"

\* C5: in the returned narrative the discharge sentences with the same target
\* form one contiguous block.
C5_TargetBlockContiguous ==
    Returned =>
        \A i, j, k \in DOMAIN lines :
            (i < j /\ j < k /\ IsDischarge(lines[i]) /\ IsDischarge(lines[k])
                /\ lines[i].target = lines[k].target)
            => (IsDischarge(lines[j]) /\ lines[j].target = lines[i].target)

\* C6: in the returned narrative every discharge sentence whose target is t
\* comes before every discharge sentence whose source is t.
C6_FeedersBeforeOutflow ==
    Returned =>
        \A i, j \in DOMAIN lines :
            (IsDischarge(lines[i]) /\ IsDischarge(lines[j])
                /\ lines[i].target = lines[j].source)
            => i < j

\* C6 witness: a returned narrative with a vertex that has two different
\* feeders and an outflow, all three sentences present.
C6_Witness ==
    /\ Returned
    /\ \E i, j, k \in DOMAIN lines :
          /\ IsDischarge(lines[i]) /\ IsDischarge(lines[j]) /\ IsDischarge(lines[k])
          /\ lines[i].source # lines[j].source
          /\ lines[i].target = lines[j].target
          /\ lines[k].source = lines[i].target

\* A non-Comment vertex without any edge.
IsOrphan(v) ==
    /\ shapes_by_id[v].incoming = <<>>
    /\ shapes_by_id[v].outgoing = <<>>
    /\ shapes_by_id[v].hydro_type # "Comment/Note"
OrphanSet == {v \in DOMAIN shapes_by_id : IsOrphan(v)}
OrphanLinesOf(v) ==
    {i \in DOMAIN lines : lines[i].kind = "orphan" /\ lines[i].source = v}
BlockLines ==
    {i \in DOMAIN lines : lines[i].kind \in {"orphan header", "orphan", "blank"}}

\* C12: in the returned narrative the orphan block is the trailing header,
\* one line for each non-Comment vertex without incoming and outgoing edges
\* and for no other vertex, and a blank line; such a vertex is in no discharge
\* sentence; without such a vertex there is no block.
C12_OrphanBlockExact ==
    Returned =>
        LET k == Cardinality(OrphanSet)
            n == Len(lines)
        IN /\ \A v \in DOMAIN shapes_by_id :
                 /\ Cardinality(OrphanLinesOf(v)) = IF IsOrphan(v) THEN 1 ELSE 0
                 /\ IsOrphan(v) =>
                       \A i \in DOMAIN lines :
                           IsDischarge(lines[i])
                               => (lines[i].source # v /\ lines[i].target # v)
           /\ IF k = 0 THEN BlockLines = {}
              ELSE /\ n >= k + 2
                   /\ BlockLines = (n - k - 1)..n
                   /\ lines[n - k - 1] = orphan_header
                   /\ lines[n] = blank_line
                   /\ \A i \in (n - k)..(n - 1) : lines[i].kind = "orphan"

\* C12 witness: a returned narrative of a graph with an isolated non-Comment
\* vertex, an isolated Comment vertex and a discharge sentence.
C12_Witness ==
    /\ Returned
    /\ OrphanSet # {}
    /\ \E c \in DOMAIN shapes_by_id :
          /\ shapes_by_id[c].hydro_type = "Comment/Note"
          /\ shapes_by_id[c].incoming = <<>> /\ shapes_by_id[c].outgoing = <<>>
    /\ \E i \in DOMAIN lines : IsDischarge(lines[i])

\* The label or, for a vertex without label, the id.
Shown(v) == IF shapes_by_id[v].label # <<>> THEN shapes_by_id[v].label ELSE <<ToString(v)>>

\* C14: every line of the narrative that shows a vertex (source or target of
\* a discharge sentence, a 'does not discharge' line, a line of the orphan
\* block) shows a vertex without label by its id.
C14_EmptyLabelShownById ==
    \A i \in DOMAIN lines :
        /\ lines[i].kind \in {"discharges", "does not discharge", "orphan"}
              => lines[i].text[2] = Shown(lines[i].source)
        /\ lines[i].kind = "discharges"
              => lines[i].text[5] = Shown(lines[i].target)

\* C17: a Comment vertex is never the start shape the pass over the traversal
\* roots calls process_target for, never has a 'does not discharge' line and
\* never has a line in the orphan block.
C17_CommentExcluded ==
    /\ (pc = "roots" /\ stack # <<>>)
          => shapes_by_id[stack[1].tid].hydro_type # "Comment/Note"
    /\ \A i \in DOMAIN lines :
          lines[i].kind \in {"does not discharge", "orphan"}
              => shapes_by_id[lines[i].source].hydro_type # "Comment/Note"

\* C17 witness: a returned narrative of a graph with a Comment vertex without
\* any edge, processed by the sweep, beside a 'does not discharge' line of
\* another vertex.
C17_Witness ==
    /\ Returned
    /\ \E c \in DOMAIN shapes_by_id :
          /\ shapes_by_id[c].hydro_type = "Comment/Note"
          /\ shapes_by_id[c].incoming = <<>> /\ shapes_by_id[c].outgoing = <<>>
          /\ c \in visited_targets
    /\ \E i \in DOMAIN lines : lines[i].kind = "does not discharge"

\* Where the edge of a discharge sentence stands in the outgoing list of its
\* source.
EdgeIndex(l) ==
    Least({k \in DOMAIN shapes_by_id[l.source].outgoing :
              shapes_by_id[l.source].outgoing[k]
                  = [target |-> l.target, flow_type |-> l.flow_type]})

\* C20: in the returned narrative the discharge sentences with the same
\* source stand in descending depth of their targets, sentences to targets of
\* equal depth in the order of their edges in the source's outgoing list.
C20_SourceOrderByDepth ==
    Returned =>
        \A i, j \in DOMAIN lines :
            (i < j /\ IsDischarge(lines[i]) /\ IsDischarge(lines[j])
                /\ lines[i].source = lines[j].source)
            => \/ memo_lengths[lines[i].target] > memo_lengths[lines[j].target]
               \/ /\ memo_lengths[lines[i].target] = memo_lengths[lines[j].target]
                  /\ EdgeIndex(lines[i]) < EdgeIndex(lines[j])

\* C20 witness: a returned narrative in which two sentences of one source stand
\* in the opposite order of their edges, the deeper target first.
C20_Witness ==
    /\ Returned
    /\ \E i, j \in DOMAIN lines :
          /\ i < j /\ IsDischarge(lines[i]) /\ IsDischarge(lines[j])
          /\ lines[i].source = lines[j].source
          /\ EdgeIndex(lines[i]) > EdgeIndex(lines[j])
          /\ memo_lengths[lines[i].target] > memo_lengths[lines[j].target]

SentencesOf(v, k) ==
    {i \in DOMAIN lines :
        /\ IsDischarge(lines[i])
        /\ Triple(lines[i]) = <<v, shapes_by_id[v].outgoing[k].target,
                                shapes_by_id[v].outgoing[k].flow_type>>}

\* C27: in the returned state every vertex is in visited_targets and every
\* (source, target, flowKind) triple of the graph has exactly one discharge
\* sentence.
C27_AllVisitedAllEdges ==
    Returned =>
        /\ visited_targets = DOMAIN shapes_by_id
        /\ \A v \in DOMAIN shapes_by_id :
              \A k \in DOMAIN shapes_by_id[v].outgoing :
                  Cardinality(SentencesOf(v, k)) = 1

\* C27 witness: a returned narrative of a graph with a Comment vertex that has
\* no incoming edge and an outgoing edge to a vertex with no other feeder, so
\* that only the sweep reaches the two.
C27_Witness ==
    /\ Returned
    /\ \E c \in DOMAIN shapes_by_id :
          /\ shapes_by_id[c].hydro_type = "Comment/Note"
          /\ shapes_by_id[c].incoming = <<>>
          /\ Len(shapes_by_id[c].outgoing) = 1
          /\ Len(shapes_by_id[shapes_by_id[c].outgoing[1].target].incoming) = 1
          /\ Cardinality(SentencesOf(c, 1)) = 1

\* C25: no step of narrative_summary and no step of
\* generate_corrected_network_block changes the Flow Graph: labels, kinds and
\* the incoming and outgoing lists stay as they are.
C25_GraphUnchanged == [][shapes_by_id' = shapes_by_id]_vars

\* C25 witness: a returned narrative of a graph with a vertex whose outgoing
\* list the sort by depth puts in another order.
C25_Witness ==
    /\ Returned
    /\ \E v \in DOMAIN shapes_by_id :
          out_sorted(shapes_by_id[v].outgoing, memo_lengths) # shapes_by_id[v].outgoing

Ended == pc \in {"done", "raised"}

\* C26: a call of narrative_summary ends as every earlier call on the same
\* graph ended, with the same lines when it returns, whatever graphs the calls
\* in between were on and whether compute_branch_length was called before.
C26_CallsIndependent ==
    Ended =>
        \A k \in DOMAIN run_log.texts :
            run_log.texts[k].graph = shapes_by_id
                => /\ run_log.texts[k].outcome = outcome
                   /\ Returned => run_log.texts[k].lines = lines

\* C26 witness: the third call has returned on the graph of the first, after
\* a second call on another graph in which a vertex of the first graph has
\* another depth, and after a call of compute_branch_length.
C26_Witness ==
    /\ Returned
    /\ Len(run_log.texts) = 2
    /\ run_log.texts[1].graph = shapes_by_id
    /\ run_log.texts[2].graph # shapes_by_id
    /\ run_log.texts[2].outcome = "returned"
    /\ run_log.texts[1].lines = lines
    /\ depth_result # no_depth_result
    /\ \E i \in DOMAIN lines : IsDischarge(lines[i])

\* ------------------------------------------------------------------------
\* Properties of the Branch-Depth Analyzer
\* ------------------------------------------------------------------------
\* The value of a call with an empty memo.
DepthOf(v) == compute_branch_length(shapes_by_id, v, <<>>, 1).val
DepthRecurrence(v, val) ==
    /\ val >= 1
    /\ (val = 1) <=> (shapes_by_id[v].outgoing = <<>>)
    /\ shapes_by_id[v].outgoing # <<>>
          => val = 1 + Greatest({DepthOf(t) : t \in Targets(shapes_by_id, v)})

\* C11: on an acyclic Flow Graph every call of compute_branch_length returns,
\* the value returned for v is at least 1, is 1 exactly when v has no outgoing
\* edge and otherwise is 1 + the greatest value of v's targets, and the value
\* returned and every value stored in the memo are the values a call with an
\* empty memo gives, whatever calls came before.
C11_DepthRecurrence ==
    Acyclic(shapes_by_id) =>
        /\ outcome # "RecursionError"
        /\ depth_result # no_depth_result =>
              /\ DepthRecurrence(depth_result.start_id, depth_result.val)
              /\ depth_result.val = DepthOf(depth_result.start_id)
        /\ \A v \in DOMAIN memo_lengths :
              /\ DepthRecurrence(v, memo_lengths[v])
              /\ memo_lengths[v] = DepthOf(v)

\* C11 witness: on an acyclic graph a call has returned 3 for a vertex with two
\* targets of different depth, the shallower one last, while the memo held
\* results of earlier calls for other vertices.
C11_Witness ==
    /\ Acyclic(shapes_by_id)
    /\ depth_result.val = 3
    /\ DOMAIN memo_lengths = DOMAIN shapes_by_id
    /\ LET out == shapes_by_id[depth_result.start_id].outgoing
       IN /\ Len(out) = 2
          /\ DepthOf(out[1].target) > DepthOf(out[2].target)

\* ------------------------------------------------------------------------
\* Area Mapping
\* ------------------------------------------------------------------------
AreaScale == 100000

\* The keys generate_corrected_network_block looks up: f"PERLND {label}.0" and
\* f"IMPLND {label}.0".
perlnd_key(label) == <<"PERLND">> \o label \o <<".0">>
implnd_key(label) == <<"IMPLND">> \o label \o <<".0">>

\* load_drainage_areas, lines 1210-1217: rows of [SUBCATCHMENT, PERLND, IMPLND],
\* a later row of the same subcatchment replacing an earlier one.
RECURSIVE load_drainage_areas(_)
load_drainage_areas(rows) ==
    IF rows = <<>> THEN <<>>
    ELSE LET row == rows[Len(rows)]
             subcatchment == <<ToString(row.SUBCATCHMENT)>>
         IN (perlnd_key(subcatchment) :> row.PERLND)
            @@ (implnd_key(subcatchment) :> row.IMPLND)
            @@ load_drainage_areas(SubSeq(rows, 1, Len(rows) - 1))

\* ------------------------------------------------------------------------
\* Network Block Composer
\* ------------------------------------------------------------------------
\* Order of labels as Python compares strings, for labels whose words are
\* single characters: digits before capital letters, a proper prefix first.
CharOrder == <<"0", "1", "2", "3", "4", "5", "6", "7", "8", "9",
               "A", "B", "C", "P", "Q", "R">>
CharRank(c) == CHOOSE k \in DOMAIN CharOrder : CharOrder[k] = c

RECURSIVE label_less(_, _)
label_less(a, b) ==
    IF b = <<>> THEN FALSE
    ELSE IF a = <<>> THEN TRUE
    ELSE IF Head(a) # Head(b) THEN CharRank(Head(a)) < CharRank(Head(b))
    ELSE label_less(Tail(a), Tail(b))

\* sorted(shapes_by_id.items(), key=label): the ids in label order, ids of
\* equal label in dictionary order.
RECURSIVE insert_by_label(_, _, _)
insert_by_label(sorted, id, shapes) ==
    IF sorted = <<>> THEN <<id>>
    ELSE IF label_less(shapes[id].label, shapes[Head(sorted)].label)
         THEN <<id>> \o sorted
         ELSE <<Head(sorted)>> \o insert_by_label(Tail(sorted), id, shapes)

RECURSIVE sorted_by_label(_, _)
sorted_by_label(shapes, n) ==
    IF n = 0 THEN <<>>
    ELSE insert_by_label(sorted_by_label(shapes, n - 1), n, shapes)

\* The digits of f"{round(area / 100000, 7):<9.7f}" for an integer area: the
\* value in units of 10^-7.
\* The area divided by 10000 instead of 100000.
area_text_wrong_scale(area) == ToString(area * 1000)
area_text(area) ==
    ToString((area \div AreaScale) * 10000000 + (area % AreaScale) * 100)

\* A statement line: tokens is line.split(); source and target record the
\* vertices the line was built from (0 for the blank line).
perlnd_line(shapes, id, target_id, area) ==
    [tokens |-> <<"PERLND">> \o shapes[id].label \o <<"PWATER", "PERO", area_text(area)>>
                \o <<"RCHRES">> \o shapes[target_id].label \o <<"INFLOW">>,
     source |-> id, target |-> target_id]
\* The IMPLND line with the subcatchment's own label as destination.
implnd_line_own_label(shapes, id, target_id, area) ==
    [tokens |-> <<"IMPLND">> \o shapes[id].label \o <<"IWATER", "SURO", area_text(area)>>
                \o <<"RCHRES">> \o shapes[id].label \o <<"INFLOW">>,
     source |-> id, target |-> target_id]
implnd_line(shapes, id, target_id, area) ==
    [tokens |-> <<"IMPLND">> \o shapes[id].label \o <<"IWATER", "SURO", area_text(area)>>
                \o <<"RCHRES">> \o shapes[target_id].label \o <<"INFLOW">>,
     source |-> id, target |-> target_id]
rchres_line(shapes, id, target_id) ==
    [tokens |-> <<"RCHRES">> \o shapes[id].label \o <<"HYDR", "ROVOL">>
                \o <<"RCHRES">> \o shapes[target_id].label \o <<"INFLOW">>,
     source |-> id, target |-> target_id]
blank_statement == [tokens |-> <<>>, source |-> 0, target |-> 0]

\* rchres_groups is a dict in insertion order: a sequence of [key, lines].
has_group(groups, key) == \E k \in DOMAIN groups : groups[k].key = key
group_lines(groups, key) ==
    IF has_group(groups, key)
    THEN groups[CHOOSE k \in DOMAIN groups : groups[k].key = key].lines
    ELSE <<>>
\* if key not in rchres_groups: rchres_groups[key] = []
with_group(groups, key) ==
    IF has_group(groups, key) THEN groups
    ELSE Append(groups, [key |-> key, lines |-> <<>>])
\* rchres_groups[key].append(line)
group_append(groups, key, line) ==
    [k \in DOMAIN groups |->
        IF groups[k].key = key
        THEN [groups[k] EXCEPT !.lines = Append(@, line)]
        ELSE groups[k]]

\* Step 1, lines 1390-1424, over the ids in label order.
RECURSIVE step1(_, _, _, _)
RECURSIVE step1_last_edge(_, _, _, _)
\* Step 1 taking the target of the last outgoing edge.
step1_last_edge(shapes, mapping, order, groups) ==
    IF order = <<>> THEN groups
    ELSE LET shape_id == Head(order)
             label == shapes[shape_id].label
             outgoing == shapes[shape_id].outgoing
             target_id == outgoing[Len(outgoing)].target
             target_label == shapes[target_id].label
             g0 == with_group(groups, target_label)
             g1 == IF perlnd_key(label) \in DOMAIN mapping
                   THEN group_append(g0, target_label,
                            perlnd_line(shapes, shape_id, target_id,
                                        mapping[perlnd_key(label)]))
                   ELSE g0
             g2 == IF implnd_key(label) \in DOMAIN mapping
                   THEN group_append(g1, target_label,
                            implnd_line(shapes, shape_id, target_id,
                                        mapping[implnd_key(label)]))
                   ELSE g1
         IN IF shapes[shape_id].hydro_type # "Subcatchment"
            THEN step1_last_edge(shapes, mapping, Tail(order), groups)
            ELSE IF outgoing = <<>> \/ outgoing[1].target \notin DOMAIN shapes
            THEN step1_last_edge(shapes, mapping, Tail(order), groups)
            ELSE step1_last_edge(shapes, mapping, Tail(order), g2)

step1(shapes, mapping, order, groups) ==
    IF order = <<>> THEN groups
    ELSE LET shape_id == Head(order)
             label == shapes[shape_id].label
             outgoing == shapes[shape_id].outgoing
             target_id == outgoing[1].target
             target_label == shapes[target_id].label
             g0 == with_group(groups, target_label)
             g1 == IF perlnd_key(label) \in DOMAIN mapping
                   THEN group_append(g0, target_label,
                            perlnd_line(shapes, shape_id, target_id,
                                        mapping[perlnd_key(label)]))
                   ELSE g0
             g2 == IF implnd_key(label) \in DOMAIN mapping
                   THEN group_append(g1, target_label,
                            implnd_line(shapes, shape_id, target_id,
                                        mapping[implnd_key(label)]))
                   ELSE g1
         IN IF shapes[shape_id].hydro_type # "Subcatchment"
            THEN step1(shapes, mapping, Tail(order), groups)
            ELSE IF outgoing = <<>> \/ outgoing[1].target \notin DOMAIN shapes
            THEN step1(shapes, mapping, Tail(order), groups)
            ELSE step1(shapes, mapping, Tail(order), g2)

\* Step 2, lines 1427-1442.
RECURSIVE step2_connections(_, _, _, _)
step2_connections(shapes, shape_id, i, groups) ==
    IF i > Len(shapes[shape_id].outgoing) THEN groups
    ELSE LET target_id == shapes[shape_id].outgoing[i].target
             label == shapes[shape_id].label
         IN IF target_id \notin DOMAIN shapes
            THEN step2_connections(shapes, shape_id, i + 1, groups)
            ELSE step2_connections(shapes, shape_id, i + 1,
                     group_append(with_group(groups, label), label,
                                  rchres_line(shapes, shape_id, target_id)))

RECURSIVE step2(_, _, _)
step2(shapes, order, groups) ==
    IF order = <<>> THEN groups
    ELSE IF shapes[Head(order)].hydro_type \in {"RCHRES", "Node", "SWM Facility"}
         THEN step2(shapes, Tail(order),
                    step2_connections(shapes, Head(order), 1, groups))
         ELSE step2(shapes, Tail(order), groups)

\* Step 3, lines 1446-1470: process_rchres with st = [network_lines,
\* processed_rchres, depth, err]; the destination of a line is
\* line.split()[-2]; depth is the number of activations of process_rchres and
\* err the RecursionError the interpreter raises at its depth limit.
RECURSIVE process_rchres(_, _, _)
RECURSIVE process_rchres_unmarked(_, _, _)
RECURSIVE process_downstream(_, _, _, _)
\* process_rchres without line 1461: the label is not added to the
\* processed-set.
process_rchres_unmarked(groups, label, st) ==
    IF st.err THEN st
    ELSE IF st.depth >= RecursionLimit THEN [st EXCEPT !.err = TRUE]
    ELSE IF label \in st.processed_rchres THEN st
    ELSE LET ls == group_lines(groups, label)
             emitted == IF has_group(groups, label) /\ ls # <<>>
                        THEN st.network_lines \o ls \o <<blank_statement>>
                        ELSE st.network_lines
             r == process_downstream(groups, ls, 1,
                      [network_lines |-> emitted,
                       processed_rchres |-> st.processed_rchres,
                       depth |-> st.depth + 1, err |-> FALSE])
         IN [r EXCEPT !.depth = st.depth]

process_rchres(groups, label, st) ==
    IF st.err THEN st
    ELSE IF st.depth >= RecursionLimit THEN [st EXCEPT !.err = TRUE]
    ELSE IF label \in st.processed_rchres THEN st
    ELSE LET ls == group_lines(groups, label)
             emitted == IF has_group(groups, label) /\ ls # <<>>
                        THEN st.network_lines \o ls \o <<blank_statement>>
                        ELSE st.network_lines
             r == process_downstream(groups, ls, 1,
                      [network_lines |-> emitted,
                       processed_rchres |-> st.processed_rchres \cup {label},
                       depth |-> st.depth + 1, err |-> FALSE])
         IN [r EXCEPT !.depth = st.depth]

process_downstream(groups, ls, i, st) ==
    IF st.err \/ i > Len(ls) THEN st
    ELSE LET parts == ls[i].tokens
             target_label == <<parts[Len(parts) - 1]>>
         IN IF (\E k \in DOMAIN parts : parts[k] = "RCHRES")
               /\ has_group(groups, target_label)
            THEN process_downstream(groups, ls, i + 1,
                                    process_rchres(groups, target_label, st))
            ELSE process_downstream(groups, ls, i + 1, st)

\* lines 1446 and 1473-1474: every group in dictionary order.
step3_start ==
    [network_lines |-> <<>>, processed_rchres |-> {}, depth |-> 0, err |-> FALSE]
RECURSIVE step3(_, _, _)
step3(groups, k, st) ==
    IF st.err \/ k > Len(groups) THEN st
    ELSE step3(groups, k + 1, process_rchres(groups, groups[k].key, st))

\* The return without the removal of the trailing blank line.
network_result_untrimmed(network_lines) ==
    IF network_lines = <<>> THEN [none |-> TRUE, lines |-> <<>>]
    ELSE [none |-> FALSE, lines |-> network_lines]

\* The return of the list that is left, empty or not.
network_result_any_list(network_lines) ==
    LET trimmed == IF network_lines # <<>>
                      /\ network_lines[Len(network_lines)] = blank_statement
                   THEN SubSeq(network_lines, 1, Len(network_lines) - 1)
                   ELSE network_lines
    IN [none |-> FALSE, lines |-> trimmed]

\* lines 1476-1486: the trailing blank line removed; None when nothing is left.
network_result(network_lines) ==
    LET trimmed == IF network_lines # <<>>
                      /\ network_lines[Len(network_lines)] = blank_statement
                   THEN SubSeq(network_lines, 1, Len(network_lines) - 1)
                   ELSE network_lines
    IN IF trimmed = <<>> THEN [none |-> TRUE, lines |-> <<>>]
       ELSE [none |-> FALSE, lines |-> trimmed]

\* generate_corrected_network_block as a whole.
generate_corrected_network_block(shapes, mapping) ==
    LET order == sorted_by_label(shapes, Cardinality(DOMAIN shapes))
        groups == step2(shapes, order, step1(shapes, mapping, order, <<>>))
        st == step3(groups, 1, step3_start)
    IN IF st.err THEN [none |-> TRUE, lines |-> <<>>, err |-> TRUE]
       ELSE network_result(st.network_lines) @@ [err |-> FALSE]

\* ------------------------------------------------------------------------
\* Operation Sequence Deriver
\* ------------------------------------------------------------------------
\* An entry of the operation sequence is f"{parts[0]} {parts[1]}" as the pair
\* of its words; <<>> is the blank entry.
blank_entry == <<>>

\* flush_group, lines 1500-1505, on st = [operation_sequence,
\* processed_operations, referenced_rchres_targets, current_group].
flush_group(st) ==
    IF st.current_group # <<>>
    THEN [st EXCEPT !.operation_sequence = @ \o st.current_group \o <<blank_entry>>,
                    !.current_group = <<>>]
    ELSE st

\* The line step without the check against processed_operations.
opseq_line_no_check(st, parts) ==
    LET st1 == [st EXCEPT !.current_group = Append(@, <<parts[1], parts[2]>>),
                          !.processed_operations = @ \cup {<<parts[1], parts[2]>>}]
    IN IF parts[1] = "RCHRES" /\ Len(parts) >= 8
       THEN [st1 EXCEPT !.referenced_rchres_targets =
                            @ \cup {<<"RCHRES", parts[Len(parts) - 1]>>}]
       ELSE st1

\* One non-blank line with at least two words, lines 1516-1525.
opseq_line(st, parts) ==
    LET operation == <<parts[1], parts[2]>>
        st1 == IF operation \notin st.processed_operations
               THEN [st EXCEPT !.processed_operations = @ \cup {operation},
                               !.current_group = Append(@, operation)]
               ELSE st
    IN IF parts[1] = "RCHRES" /\ Len(parts) >= 8
       THEN [st1 EXCEPT !.referenced_rchres_targets =
                            @ \cup {<<"RCHRES", parts[Len(parts) - 1]>>}]
       ELSE st1

RECURSIVE opseq_loop(_, _, _)
opseq_loop(block, i, st) ==
    IF i > Len(block) THEN st
    ELSE LET parts == block[i].tokens
         IN IF parts = <<>> THEN opseq_loop(block, i + 1, flush_group(st))
            ELSE IF Len(parts) < 2 THEN opseq_loop(block, i + 1, st)
            ELSE opseq_loop(block, i + 1, opseq_line(st, parts))

\* sorted(unprocessed_targets): the entries "RCHRES x" in the order of x.
RECURSIVE sorted_targets(_)
sorted_targets(targets) ==
    IF targets = {} THEN <<>>
    ELSE LET first == CHOOSE t \in targets :
                          \A u \in targets : u = t \/ label_less(<<t[2]>>, <<u[2]>>)
         IN <<first>> \o sorted_targets(targets \ {first})

\* lines 1538-1540: trailing blank entries removed.
RECURSIVE strip_trailing_blanks(_)
strip_trailing_blanks(seq) ==
    IF seq # <<>> /\ seq[Len(seq)] = blank_entry
    THEN strip_trailing_blanks(SubSeq(seq, 1, Len(seq) - 1))
    ELSE seq

generate_operation_sequence_block(block) ==
    LET st0 == [operation_sequence |-> <<>>, processed_operations |-> {},
                referenced_rchres_targets |-> {}, current_group |-> <<>>]
        st == flush_group(opseq_loop(block, 1, st0))
        unprocessed_targets == st.referenced_rchres_targets \ st.processed_operations
        with_targets == IF unprocessed_targets # {}
                        THEN st.operation_sequence \o <<blank_entry>>
                                 \o sorted_targets(unprocessed_targets)
                        ELSE st.operation_sequence
    IN strip_trailing_blanks(with_targets)

\* ------------------------------------------------------------------------
\* The two composers run on every Flow Graph and Area Mapping within the
\* bounds
\* ------------------------------------------------------------------------
NetShapes == 3
NetEdges == 3

\* The shapes a diagram is drawn from: [hydro_type, label].
ShapeMenu ==
    { <<"Subcatchment", <<"1">>>>, <<"Subcatchment", <<"5">>>>,
      <<"RCHRES", <<"5">>>>, <<"RCHRES", <<"1">>>>,
      <<"Node", <<"P", "A">>>>, <<"SWM Facility", <<>>>>,
      <<"Comment/Note", <<"5">>>> }

NetEdgeSeqs(n) ==
    UNION {[1..k -> (1..n) \X (1..n) \X {Surface}] : k \in 0..NetEdges}

\* The Area Mappings: the one load_drainage_areas builds from a sheet with the
\* subcatchments 1 and 5, the one keyed "Pervious <label>" / "Impervious
\* <label>", and one holding the pervious area only.
AreaMappings ==
    { load_drainage_areas(<<[SUBCATCHMENT |-> 1, PERLND |-> 50000, IMPLND |-> 25000],
                            [SUBCATCHMENT |-> 5, PERLND |-> 120000, IMPLND |-> 0]>>),
      (<<"Pervious", "1">> :> 50000) @@ (<<"Impervious", "1">> :> 25000),
      (perlnd_key(<<"1">>) :> 50000) }

InitNetwork ==
    /\ \E n \in 1..NetShapes :
         \E shp \in [1..n -> ShapeMenu], es \in NetEdgeSeqs(n) :
            shapes_by_id = build_graph([i \in 1..n |-> NewShape(shp[i][2], shp[i][1])], es)
    /\ drainage_area_mapping \in AreaMappings
    /\ pc = "network"
    /\ rchres_groups = <<>>
    /\ network_block = [none |-> TRUE, lines |-> <<>>]
    /\ operation_sequence = <<>>
    /\ memo_lengths = <<>>
    /\ visited_lines = {}
    /\ visited_targets = {}
    /\ lines = <<>>
    /\ stack = <<>>
    /\ cursor = 1
    /\ outcome = "running"
    /\ NotImporting
    /\ depth_result = no_depth_result
    /\ AppAtRest

\* generate_corrected_network_block, Steps 1 and 2.
BuildGroups ==
    /\ pc = "network"
    /\ LET order == sorted_by_label(shapes_by_id, Cardinality(DOMAIN shapes_by_id))
       IN rchres_groups' = step2(shapes_by_id, order,
                                 step1(shapes_by_id, drainage_area_mapping, order, <<>>))
    /\ pc' = "groups"
    /\ UNCHANGED <<app_vars, import_vars, depth_vars, shapes_by_id, narrative_vars, drainage_area_mapping, network_block,
                   operation_sequence>>

\* generate_corrected_network_block, Step 3 and the return; a RecursionError
\* of process_rchres leaves the function without a block.
EmitGroups ==
    /\ pc = "groups"
    /\ LET st == step3(rchres_groups, 1, step3_start)
       IN IF st.err
          THEN /\ pc' = "raised"
               /\ outcome' = "RecursionError"
               /\ UNCHANGED network_block
          ELSE /\ network_block' = network_result(st.network_lines)
               /\ pc' = "block"
               /\ UNCHANGED outcome
    /\ UNCHANGED <<app_vars, import_vars, depth_vars, shapes_by_id, memo_lengths, visited_lines,
                   visited_targets, lines, stack, cursor, drainage_area_mapping,
                   rchres_groups, operation_sequence>>

\* generate_operation_sequence_block on the returned block.
DeriveOperationSequence ==
    /\ pc = "block"
    /\ ~network_block.none
    /\ operation_sequence' = generate_operation_sequence_block(network_block.lines)
    /\ pc' = "sequence"
    /\ UNCHANGED <<app_vars, import_vars, depth_vars, shapes_by_id, narrative_vars, drainage_area_mapping, rchres_groups,
                   network_block>>

NextNetwork ==
    \/ BuildGroups
    \/ EmitGroups
    \/ DeriveOperationSequence

SpecNetwork == InitNetwork /\ [][NextNetwork]_vars

\* ------------------------------------------------------------------------
\* The two composers, each run on every Flow Graph within its bounds
\* ------------------------------------------------------------------------
InitAnalyses == InitNarrative \/ InitNetwork
NextAnalyses == NextNarrative \/ NextNetwork
SpecAnalyses == InitAnalyses /\ [][NextAnalyses]_vars

\* ------------------------------------------------------------------------
\* The application: its four operations in any order
\* ------------------------------------------------------------------------
\* What the application stores between operations: self.shapes_by_id,
\* self.drainage_area_mapping (None and {} both read as <<>>: every reader
\* tests `not self.drainage_area_mapping`), self.loaded_excel_file and
\* self.network_block (no attribute before the first successful generation).
stored_state ==
    [shapes_by_id |-> shapes_by_id, drainage_area_mapping |-> drainage_area_mapping,
     loaded_excel_file |-> loaded_excel_file, network_block |-> network_block]

\* app_trace records the operation that ran last: whether it showed a warning,
\* whether it called generate_corrected_network_block (composed) or
\* generate_operation_sequence_block (derived), and the stored state before it;
\* block_graph is the graph the stored network block was generated from.
trace(op, warned, composed, derived, block_graph) ==
    [op |-> op, warned |-> warned, composed |-> composed, derived |-> derived,
     block_graph |-> block_graph, before |-> stored_state]

cell(id, style, value) == [id |-> id, style |-> style, value |-> value]
connector(source, target) == [source |-> source, target |-> target, style |-> {}]

\* The diagram files the user can choose: Subcatchment 1 into RCHRES 5;
\* Subcatchment 5 into RCHRES 1; RCHRES 1 into RCHRES 5; a lone note; a
\* diagram without vertex cells.
DrawioFiles ==
    { [shape_cells |-> <<cell(1, {"ellipse;"}, <<"1">>), cell(2, {"shape=hexagon"}, <<"5">>)>>,
       edge_cells |-> <<connector(1, 2)>>],
      [shape_cells |-> <<cell(1, {"ellipse;"}, <<"5">>), cell(2, {"shape=hexagon"}, <<"1">>)>>,
       edge_cells |-> <<connector(1, 2)>>],
      [shape_cells |-> <<cell(1, {"shape=hexagon"}, <<"1">>), cell(2, {"shape=hexagon"}, <<"5">>)>>,
       edge_cells |-> <<connector(1, 2)>>],
      [shape_cells |-> <<cell(1, {}, <<"7">>)>>, edge_cells |-> <<>>],
      [shape_cells |-> <<>>, edge_cells |-> <<>>] }

\* What the file dialog of import_drawio_file returns: nothing, a file
\* etree.parse raises on, or a diagram file.
DrawioChoices ==
    { [kind |-> k, shape_cells |-> <<>>, edge_cells |-> <<>>] : k \in {"cancel", "unreadable"} }
    \cup { [kind |-> "file", shape_cells |-> f.shape_cells, edge_cells |-> f.edge_cells] :
              f \in DrawioFiles }

\* What the file dialog of load_drainage_areas returns: nothing, a file
\* pd.read_excel or a row raises on, a sheet with subcatchment 1, a sheet with
\* the subcatchments 1 and 5, or a sheet without rows.
ExcelChoices ==
    { [kind |-> k, name |-> "", rows |-> <<>>] : k \in {"cancel", "unreadable"} }
    \cup { [kind |-> "file", name |-> "one.xlsx",
             rows |-> <<[SUBCATCHMENT |-> 1, PERLND |-> 50000, IMPLND |-> 25000]>>],
           [kind |-> "file", name |-> "two.xlsx",
             rows |-> <<[SUBCATCHMENT |-> 1, PERLND |-> 50000, IMPLND |-> 25000],
                        [SUBCATCHMENT |-> 5, PERLND |-> 120000, IMPLND |-> 0]>>],
           [kind |-> "file", name |-> "empty.xlsx", rows |-> <<>>] }

app_frame ==
    UNCHANGED <<pc, memo_lengths, visited_lines, visited_targets, lines, stack, cursor,
                outcome, rchres_groups, import_vars, depth_vars, run_log>>

\* import_drawio_file, lines 931-960: no file chosen is a warning; a file that
\* cannot be parsed is a critical message; otherwise the graph of the file
\* replaces self.shapes_by_id. self.network_block is not touched.
import_drawio_file(choice) ==
    /\ pc = "app"
    /\ shapes_by_id' = IF choice.kind = "file"
                       THEN build_graph(parse_shapes(choice.shape_cells),
                                        parse_edges(choice.edge_cells))
                       ELSE shapes_by_id
    /\ app_trace' = trace("import_drawio_file", choice.kind = "cancel", FALSE, FALSE,
                          app_trace.block_graph)
    /\ UNCHANGED <<drainage_area_mapping, loaded_excel_file, network_block,
                   operation_sequence>>
    /\ app_frame

\* load_drainage_areas, lines 1196-1234, as the handler of its button: the
\* mapping of the sheet and the file name are stored, also when the sheet has
\* no rows.
LoadDrainageAreas(choice) ==
    /\ pc = "app"
    /\ IF choice.kind = "file"
       THEN /\ drainage_area_mapping' = load_drainage_areas(choice.rows)
            /\ loaded_excel_file' = choice.name
       ELSE UNCHANGED <<drainage_area_mapping, loaded_excel_file>>
    /\ app_trace' = trace("load_drainage_areas", choice.kind = "cancel", FALSE, FALSE,
                          app_trace.block_graph)
    /\ UNCHANGED <<shapes_by_id, network_block, operation_sequence>>
    /\ app_frame

\* network_section, lines 1158-1194; choice is what the user picks in the
\* dialog of the nested load_drainage_areas, opened when no mapping is loaded.
network_section(choice) ==
    /\ pc = "app"
    /\ LET loads == shapes_by_id # <<>> /\ drainage_area_mapping = <<>>
           stores == loads /\ choice.kind = "file"
           mapping == IF stores THEN load_drainage_areas(choice.rows)
                      ELSE drainage_area_mapping
           composes == shapes_by_id # <<>> /\ mapping # <<>>
           block == generate_corrected_network_block(shapes_by_id, mapping)
           fails == composes /\ ~block.err /\ block.none
           succeeds == composes /\ ~block.err /\ ~block.none
       IN /\ drainage_area_mapping' = mapping
          /\ loaded_excel_file' = IF stores THEN choice.name ELSE loaded_excel_file
          /\ network_block' = IF succeeds THEN [none |-> FALSE, lines |-> block.lines]
                               ELSE network_block
          /\ app_trace' = trace("network_section",
                                shapes_by_id = <<>> \/ loads \/ fails,
                                composes, FALSE,
                                IF succeeds THEN shapes_by_id ELSE app_trace.block_graph)
    /\ UNCHANGED <<shapes_by_id, operation_sequence>>
    /\ app_frame

\* opn_sequence_section without the check of lines 1109-1111.
opn_sequence_section_unchecked ==
    /\ pc = "app"
    /\ operation_sequence' = generate_operation_sequence_block(network_block.lines)
    /\ app_trace' = trace("opn_sequence_section", operation_sequence' = <<>>, FALSE, TRUE,
                          app_trace.block_graph)
    /\ UNCHANGED <<shapes_by_id, drainage_area_mapping, loaded_excel_file, network_block>>
    /\ app_frame

\* opn_sequence_section, lines 1105-1131: without a stored network block a
\* warning; otherwise the sequence of the stored block, whatever graph it was
\* generated from.
opn_sequence_section ==
    /\ pc = "app"
    /\ IF network_block.none \/ network_block.lines = <<>>
       THEN /\ app_trace' = trace("opn_sequence_section", TRUE, FALSE, FALSE,
                                  app_trace.block_graph)
            /\ UNCHANGED operation_sequence
       ELSE /\ operation_sequence' = generate_operation_sequence_block(network_block.lines)
            /\ app_trace' = trace("opn_sequence_section", operation_sequence' = <<>>,
                                  FALSE, TRUE, app_trace.block_graph)
    /\ UNCHANGED <<shapes_by_id, drainage_area_mapping, loaded_excel_file, network_block>>
    /\ app_frame

\* __init__, lines 584-585 and 633: no graph, no mapping, no file, and no
\* network_block attribute.
InitApp ==
    /\ pc = "app"
    /\ shapes_by_id = <<>>
    /\ drainage_area_mapping = <<>>
    /\ rchres_groups = <<>>
    /\ network_block = [none |-> TRUE, lines |-> <<>>]
    /\ operation_sequence = <<>>
    /\ memo_lengths = <<>>
    /\ visited_lines = {}
    /\ visited_targets = {}
    /\ lines = <<>>
    /\ stack = <<>>
    /\ cursor = 1
    /\ outcome = "running"
    /\ NotImporting
    /\ depth_result = no_depth_result
    /\ AppAtRest

NextApp ==
    \/ \E choice \in DrawioChoices : import_drawio_file(choice)
    \/ \E choice \in ExcelChoices : LoadDrainageAreas(choice)
    \/ \E choice \in ExcelChoices : network_section(choice)
    \/ opn_sequence_section

SpecApp == InitApp /\ [][NextApp]_vars

\* ------------------------------------------------------------------------
\* Properties of the Operation Sequence Deriver
\* ------------------------------------------------------------------------
Block == network_block.lines
Statements == {i \in DOMAIN Block : Block[i].tokens # <<>>}
\* The operation of a statement line: its first two words.
OperationOf(i) == <<Block[i].tokens[1], Block[i].tokens[2]>>
\* The reach a statement line names as destination: the word before INFLOW.
DestinationOf(i) == <<"RCHRES", Block[i].tokens[Len(Block[i].tokens) - 1]>>
Operations == {OperationOf(i) : i \in Statements}
Entries == {k \in DOMAIN operation_sequence : operation_sequence[k] # blank_entry}
SameGroup(a, b) ==
    \A k \in a..b : operation_sequence[k] # blank_entry
\* The entries after the last blank entry.
FinalGroup ==
    {operation_sequence[k] : k \in {j \in Entries : SameGroup(j, Len(operation_sequence))}}
Derived == pc = "sequence"

\* C7: every reach named as the destination of a statement line and never the
\* operation of any line is listed in the final group of the operation
\* sequence.
C7_DanglingReachListed ==
    Derived =>
        \A i \in Statements :
            DestinationOf(i) \notin Operations => DestinationOf(i) \in FinalGroup

\* Where an entry was first seen in the input lines: as an operation, or, for
\* an entry that is no line's operation, as a destination.
FirstSeen(e) ==
    IF e \in Operations
    THEN Least({i \in Statements : OperationOf(i) = e})
    ELSE Least({i \in Statements : DestinationOf(i) = e})
NoDuplicateEntry ==
    \A a, b \in Entries : a < b => operation_sequence[a] # operation_sequence[b]

\* C8 as stated: no entry twice, and within every output group the entries
\* are in the order in which they were first seen in the input lines.
C8_FirstSeenOrderInEveryGroup ==
    Derived =>
        /\ NoDuplicateEntry
        /\ \A a, b \in Entries :
              (a < b /\ SameGroup(a, b))
                  => FirstSeen(operation_sequence[a]) < FirstSeen(operation_sequence[b])

\* C8 amended: no entry twice; within every output group the operations taken
\* from the input lines are in first-seen order; the referenced reaches that
\* are no line's operation are listed in sorted order.
C8_NoDuplicateFirstSeenOrder ==
    Derived =>
        /\ NoDuplicateEntry
        /\ \A a, b \in Entries :
              (a < b /\ SameGroup(a, b))
                  => IF operation_sequence[a] \in Operations
                        /\ operation_sequence[b] \in Operations
                     THEN FirstSeen(operation_sequence[a]) < FirstSeen(operation_sequence[b])
                     ELSE /\ operation_sequence[a] \notin Operations
                          /\ operation_sequence[b] \notin Operations
                          /\ label_less(<<operation_sequence[a][2]>>,
                                        <<operation_sequence[b][2]>>)

\* C8 witness: a derived sequence in which an operation of two input lines is
\* listed once, a group holds two operations, and two referenced reaches that
\* are no line's operation are listed.
C8_Witness ==
    /\ Derived
    /\ \E i, j \in Statements : i < j /\ OperationOf(i) = OperationOf(j)
    /\ \E a, b \in Entries :
          /\ a < b /\ SameGroup(a, b)
          /\ operation_sequence[a] \in Operations
    /\ \E a, b \in Entries :
          /\ a < b
          /\ operation_sequence[a] \notin Operations
          /\ operation_sequence[b] \notin Operations

\* ------------------------------------------------------------------------
\* Properties of the Network Block Composer
\* ------------------------------------------------------------------------
Composed == pc \in {"block", "sequence"}
LinesOf(v) == {i \in Statements : Block[i].source = v}
BothAreasPresent(v) ==
    /\ perlnd_key(shapes_by_id[v].label) \in DOMAIN drainage_area_mapping
    /\ implnd_key(shapes_by_id[v].label) \in DOMAIN drainage_area_mapping
\* The words a statement line ends with when its destination is the vertex t.
DestinedAt(i, t) ==
    LET tail == <<"RCHRES">> \o shapes_by_id[t].label \o <<"INFLOW">>
        parts == Block[i].tokens
    IN /\ Len(parts) >= Len(tail)
       /\ SubSeq(parts, Len(parts) - Len(tail) + 1, Len(parts)) = tail
TwoLinesToFirstTarget(v) ==
    /\ Cardinality(LinesOf(v)) = 2
    /\ \E i, j \in LinesOf(v) :
          /\ Block[i].tokens[1] = "PERLND"
          /\ Block[j].tokens[1] = "IMPLND"
          /\ DestinedAt(i, shapes_by_id[v].outgoing[1].target)
          /\ DestinedAt(j, shapes_by_id[v].outgoing[1].target)

\* C9 as stated: every Subcatchment with both areas in the mapping has exactly
\* two statement lines, one PERLND and one IMPLND, both destined at the label
\* of the target of its first outgoing edge.
C9_TwoLinesForEverySubcatchment ==
    Composed =>
        \A v \in DOMAIN shapes_by_id :
            (shapes_by_id[v].hydro_type = "Subcatchment" /\ BothAreasPresent(v))
                => TwoLinesToFirstTarget(v)

\* C9 amended: the same for every Subcatchment that has at least one outgoing
\* edge.
C9_TwoLinesToFirstTarget ==
    Composed =>
        \A v \in DOMAIN shapes_by_id :
            (shapes_by_id[v].hydro_type = "Subcatchment" /\ BothAreasPresent(v)
                /\ shapes_by_id[v].outgoing # <<>>)
                => TwoLinesToFirstTarget(v)

\* C9 witness: a composed block for a Subcatchment with both areas whose two
\* outgoing edges lead to vertices of different labels.
C9_Witness ==
    /\ Composed
    /\ ~network_block.none
    /\ \E v \in DOMAIN shapes_by_id :
          /\ shapes_by_id[v].hydro_type = "Subcatchment"
          /\ BothAreasPresent(v)
          /\ Len(shapes_by_id[v].outgoing) = 2
          /\ shapes_by_id[shapes_by_id[v].outgoing[1].target].label
                # shapes_by_id[shapes_by_id[v].outgoing[2].target].label
          /\ shapes_by_id[v].outgoing[1].target # v
          /\ Cardinality(LinesOf(v)) = 2

\* The group key a line names as its destination: line.split()[-2].
DestinationKey(l) == <<l.tokens[Len(l.tokens) - 1]>>

\* C13: Step 3 never runs into the interpreter's recursion limit, whatever the
\* routing between the groups, and the block it returns holds no line of a
\* group more often than the group holds it: no group is emitted twice.
C13_Step3Terminates ==
    /\ outcome # "RecursionError"
    /\ Composed =>
          \A k \in DOMAIN rchres_groups :
              \A n \in DOMAIN rchres_groups[k].lines :
                  Occurrences(Block, rchres_groups[k].lines[n])
                      <= Occurrences(rchres_groups[k].lines, rchres_groups[k].lines[n])

\* C13 witness: a block composed from two groups that name each other as
\* destination, and from a group that names itself.
C13_Witness ==
    /\ Composed
    /\ ~network_block.none
    /\ \E a, b \in DOMAIN rchres_groups :
          /\ a # b
          /\ \E n \in DOMAIN rchres_groups[a].lines :
                DestinationKey(rchres_groups[a].lines[n]) = rchres_groups[b].key
          /\ \E n \in DOMAIN rchres_groups[b].lines :
                DestinationKey(rchres_groups[b].lines[n]) = rchres_groups[a].key
          /\ \E n \in DOMAIN rchres_groups[b].lines :
                DestinationKey(rchres_groups[b].lines[n]) = rchres_groups[b].key

\* C16: the composer returns None exactly when Steps 1 and 2 built no
\* statement line; a returned list is never empty and holds a statement line.
C16_NoneIffNoLine ==
    Composed =>
        /\ network_block.none
              <=> (\A k \in DOMAIN rchres_groups : rchres_groups[k].lines = <<>>)
        /\ network_block.none => network_block.lines = <<>>
        /\ ~network_block.none => (network_block.lines # <<>> /\ Statements # {})

\* C16 witness: None returned although Step 1 created a group, whose
\* subcatchment has no area in the mapping.
C16_Witness ==
    /\ Composed
    /\ network_block.none
    /\ rchres_groups # <<>>

\* C18: no statement line of the block is built from a Comment vertex or
\* names a Comment vertex as its destination, and every group is keyed by the
\* label of a vertex that is not a Comment.
C18_CommentNotGrouped ==
    Composed =>
        /\ \A i \in Statements :
              /\ shapes_by_id[Block[i].source].hydro_type # "Comment/Note"
              /\ shapes_by_id[Block[i].target].hydro_type # "Comment/Note"
        /\ \A k \in DOMAIN rchres_groups :
              \E v \in DOMAIN shapes_by_id :
                  /\ shapes_by_id[v].label = rchres_groups[k].key
                  /\ shapes_by_id[v].hydro_type # "Comment/Note"

GroupIds == DOMAIN rchres_groups
LinesIn(k) == {rchres_groups[k].lines[n] : n \in DOMAIN rchres_groups[k].lines}
\* Group a holds a line that names the key of group b as its destination.
Names(a, b) ==
    \E n \in DOMAIN rchres_groups[a].lines :
        DestinationKey(rchres_groups[a].lines[n]) = rchres_groups[b].key
RECURSIVE NamedFrom(_, _)
NamedFrom(frontier, seen) ==
    LET next == {b \in GroupIds : \E a \in frontier : Names(a, b)} \ seen
    IN IF next = {} THEN seen ELSE NamedFrom(next, seen \cup next)
\* No group names itself, directly or through other groups.
AcyclicRouting == \A a \in GroupIds : a \notin NamedFrom({a}, {})

\* C21: when the Flow Graph and the routing between the groups are acyclic,
\* the lines of a group that names the key of another group as a destination
\* stand in the block before the lines of that group.
C21_DependencyOrder ==
    (Composed /\ Acyclic(shapes_by_id) /\ AcyclicRouting) =>
        \A a, b \in GroupIds :
            (a # b /\ Names(a, b))
                => \A i, j \in Statements :
                       (Block[i] \in LinesIn(a) /\ Block[j] \in LinesIn(b)) => i < j

RECURSIVE TotalLines(_)
TotalLines(k) ==
    IF k = 0 THEN 0 ELSE Len(rchres_groups[k].lines) + TotalLines(k - 1)
IsBlank(i) == Block[i].tokens = <<>>

\* C22: the returned block holds the lines of every group that has lines as
\* one contiguous run, in the order of the group, bounded on each side by a
\* blank line or an end of the block, and holds no other statement line; it
\* does not start or end with a blank line and has no two blank lines in a
\* row.
C22_GroupsOnceSeparated ==
    (Composed /\ ~network_block.none) =>
        /\ Cardinality(Statements) = TotalLines(Len(rchres_groups))
        /\ \A k \in GroupIds :
              LET ls == rchres_groups[k].lines
              IN ls # <<>> =>
                    \E p \in DOMAIN Block :
                        /\ p + Len(ls) - 1 <= Len(Block)
                        /\ SubSeq(Block, p, p + Len(ls) - 1) = ls
                        /\ p = 1 \/ IsBlank(p - 1)
                        /\ p + Len(ls) - 1 = Len(Block) \/ IsBlank(p + Len(ls))
        /\ ~IsBlank(1)
        /\ ~IsBlank(Len(Block))
        /\ \A i \in DOMAIN Block : (i > 1 /\ IsBlank(i)) => ~IsBlank(i - 1)

\* C22 witness: a block of two groups with lines, one of them with two lines.
C22_Witness ==
    /\ Composed
    /\ ~network_block.none
    /\ Cardinality({k \in GroupIds : rchres_groups[k].lines # <<>>}) = 2
    /\ \E k \in GroupIds : Len(rchres_groups[k].lines) = 2

\* The groups the vertices other than v account for: the label of the first
\* target of a Subcatchment with an outgoing edge, the label of a Reach, Node
\* or Facility with an outgoing edge.
KeysWithout(v) ==
    {shapes_by_id[shapes_by_id[u].outgoing[1].target].label :
        u \in {w \in DOMAIN shapes_by_id \ {v} :
                  /\ shapes_by_id[w].hydro_type = "Subcatchment"
                  /\ shapes_by_id[w].outgoing # <<>>}}
    \cup {shapes_by_id[u].label :
            u \in {w \in DOMAIN shapes_by_id \ {v} :
                      /\ shapes_by_id[w].hydro_type \in {"RCHRES", "Node", "SWM Facility"}
                      /\ shapes_by_id[w].outgoing # <<>>}}

\* C23: every statement line of a Subcatchment is built from, and destined
\* at, the target of its first outgoing edge; a Subcatchment without outgoing
\* edge has no statement line and no group is there on its account; and every
\* Subcatchment with an outgoing edge and its pervious area in the mapping has
\* its PERLND line, whatever the other Subcatchments are.
C23_FirstEdgeOnly ==
    Composed =>
        \A v \in DOMAIN shapes_by_id :
            shapes_by_id[v].hydro_type = "Subcatchment" =>
                IF shapes_by_id[v].outgoing = <<>>
                THEN /\ LinesOf(v) = {}
                     /\ \A k \in GroupIds : rchres_groups[k].key \in KeysWithout(v)
                ELSE /\ \A i \in LinesOf(v) :
                           /\ Block[i].target = shapes_by_id[v].outgoing[1].target
                           /\ DestinedAt(i, shapes_by_id[v].outgoing[1].target)
                     /\ perlnd_key(shapes_by_id[v].label) \in DOMAIN drainage_area_mapping
                           => \E i \in LinesOf(v) : Block[i].tokens[1] = "PERLND"

\* C23 witness: a block composed for a Subcatchment without outgoing edge and
\* a Subcatchment of a greater label with two outgoing edges to vertices of
\* different labels, which has its two lines.
C23_Witness ==
    /\ Composed
    /\ ~network_block.none
    /\ \E v, w \in DOMAIN shapes_by_id :
          /\ shapes_by_id[v].hydro_type = "Subcatchment"
          /\ shapes_by_id[w].hydro_type = "Subcatchment"
          /\ shapes_by_id[v].outgoing = <<>>
          /\ label_less(shapes_by_id[v].label, shapes_by_id[w].label)
          /\ Len(shapes_by_id[w].outgoing) = 2
          /\ shapes_by_id[shapes_by_id[w].outgoing[1].target].label
                # shapes_by_id[shapes_by_id[w].outgoing[2].target].label
          /\ Cardinality(LinesOf(w)) = 2

\* The scenario graph A(Subcatchment, "1") -> B(Reach, "5").
ScenarioGraph ==
    shapes_by_id = build_graph(<<NewShape(<<"1">>, "Subcatchment"),
                                 NewShape(<<"5">>, "RCHRES")>>,
                               <<<<1, 2, Surface>>>>)
ScenarioBlock ==
    /\ ~network_block.none
    /\ \E i, j \in Statements :
          /\ Block[i].tokens = <<"PERLND", "1", "PWATER", "PERO", "5000000",
                                 "RCHRES", "5", "INFLOW">>
          /\ Block[j].tokens = <<"IMPLND", "1", "IWATER", "SURO", "2500000",
                                 "RCHRES", "5", "INFLOW">>

SequenceDerived == app_trace.op = "opn_sequence_section" /\ app_trace.derived

\* C29: whenever opn_sequence_section derives an operation sequence, the
\* stored network block it reads was generated from the Flow Graph that is
\* imported now.
C29_SequenceOfCurrentGraph ==
    SequenceDerived => app_trace.block_graph = shapes_by_id

NotComposed == app_trace.op = "network_section" /\ ~app_trace.composed
NotDerived == app_trace.op = "opn_sequence_section" /\ ~app_trace.derived

GeneratorsGuarded ==
    /\ app_trace.composed => shapes_by_id # <<>> /\ drainage_area_mapping # <<>>
    /\ app_trace.derived => ~network_block.none /\ network_block.lines # <<>>

\* C30 as stated: generate_corrected_network_block runs only with a non-empty
\* graph and a non-empty mapping, generate_operation_sequence_block only with
\* a non-empty stored block; an operation that does not run its generator
\* shows a warning and changes no stored state.
C30_GuardedOrUnchanged ==
    /\ GeneratorsGuarded
    /\ (NotComposed \/ NotDerived) =>
           app_trace.warned /\ stored_state = app_trace.before

EmptySheetStored ==
    /\ app_trace.before.shapes_by_id # <<>>
    /\ app_trace.before.drainage_area_mapping = <<>>
    /\ drainage_area_mapping = <<>>
    /\ loaded_excel_file # ""

\* C30 amended: the generators are guarded as stated; opn_sequence_section
\* without a stored block shows a warning and changes no stored state;
\* network_section without generation shows a warning and leaves the graph
\* and the stored block unchanged, and it leaves the mapping and the file
\* name unchanged unless no mapping was loaded and its nested
\* load_drainage_areas stored a sheet without rows.
C30_GuardedOrWarned ==
    /\ GeneratorsGuarded
    /\ NotDerived => app_trace.warned /\ stored_state = app_trace.before
    /\ NotComposed =>
          /\ app_trace.warned
          /\ shapes_by_id = app_trace.before.shapes_by_id
          /\ network_block = app_trace.before.network_block
          /\ \/ stored_state = app_trace.before
             \/ EmptySheetStored

\* C30 witness: network_section ran on an imported graph with no mapping
\* loaded, the user chose a sheet without rows, and the operation ended
\* without generating, with another file name stored than before.
C30_Witness ==
    /\ NotComposed
    /\ app_trace.warned
    /\ EmptySheetStored
    /\ loaded_excel_file # app_trace.before.loaded_excel_file

====
